---- MODULE Spec2Model ----
(***************************************************************************)
(* The browser-side extraction pipeline of services/localAiService.ts:     *)
(* module-level model handles and vocabulary, tokenization, the BIO decode *)
(* loop, the entity router, the domain scorer and the record assembly.     *)
(*                                                                         *)
(* JavaScript strings are modelled as sequences of one-character strings,  *)
(* so that startsWith, substring, includes, toLowerCase, replace, join and *)
(* the truthiness of a string are computed rather than assumed.            *)
(***************************************************************************)
EXTENDS Integers, Sequences, FiniteSets, TLC


\* ------------------------------------------------------------------------
\* Strings
\* ------------------------------------------------------------------------

\* Printable ASCII in code order: Ascii[i] has char code i + 31 (the double
\* quote, the backslash and the backtick are named, not written).
Ascii ==
  << " ", "!", "<dquote>", "#", "$", "%", "&", "'", "(", ")", "*", "+", ",", "-", ".", "/", "0", "1", "2", "3", "4", "5", "6", "7", "8", "9", ":", ";", "<", "=", ">", "?", "@", "A", "B", "C", "D", "E", "F", "G", "H", "I", "J", "K", "L", "M", "N", "O", "P", "Q", "R", "S", "T", "U", "V", "W", "X", "Y", "Z", "[", "<backslash>", "]", "^", "_", "<backtick>", "a", "b", "c", "d", "e", "f", "g", "h", "i", "j", "k", "l", "m", "n", "o", "p", "q", "r", "s", "t", "u", "v", "w", "x", "y", "z", "{", "|", "}", "~" >>

AsciiChars == {Ascii[k] : k \in 1..Len(Ascii)}

\* String.prototype.charCodeAt, as a table
charCodes == [c \in AsciiChars |-> 31 + (CHOOSE k \in 1..Len(Ascii) : Ascii[k] = c)]

charCode(c) == charCodes[c]

\* String.prototype.toLowerCase of one character, as a table: the letters A-Z
\* (codes 65..90) map to the character 32 codes further on
lowerChars ==
  [c \in AsciiChars |->
     IF charCodes[c] >= 65 /\ charCodes[c] <= 90 THEN Ascii[charCodes[c] + 32 - 31] ELSE c]

lowerChar(c) == lowerChars[c]

\* String.prototype.toLowerCase
toLowerCase(s) == [k \in 1..Len(s) |-> lowerChar(s[k])]

\* String.prototype.startsWith
startsWith(s, p) == Len(s) >= Len(p) /\ SubSeq(s, 1, Len(p)) = p

\* String.prototype.substring(n): the string without its first n characters
substring(s, n) == SubSeq(s, n + 1, Len(s))

\* String.prototype.includes
includes(s, p) == \E k \in 1..(Len(s) - Len(p) + 1) : SubSeq(s, k, k + Len(p) - 1) = p

\* String.prototype.replace(p, ""): removes the first occurrence of p, if any
removeFirst(s, p) ==
  IF includes(s, p)
  THEN LET k == CHOOSE j \in 1..(Len(s) - Len(p) + 1) :
                  /\ SubSeq(s, j, j + Len(p) - 1) = p
                  /\ \A h \in 1..(j - 1) : SubSeq(s, h, h + Len(p) - 1) # p
       IN SubSeq(s, 1, k - 1) \o SubSeq(s, k + Len(p), Len(s))
  ELSE s

\* The default comparison of Array.prototype.sort: code-unit order.  a comes
\* before b iff at the first position where they differ a has ended or has
\* the smaller code.
strLess(a, b) ==
  \E k \in 1..(Len(b)) :
    /\ \A h \in 1..(k - 1) : h <= Len(a) /\ a[h] = b[h]
    /\ \/ k > Len(a)
       \/ k <= Len(a) /\ charCode(a[k]) < charCode(b[k])

\* s put into a sorted list, after the elements that are not greater
RECURSIVE insertSorted(_, _)
insertSorted(sorted, s) ==
  IF sorted = <<>> THEN <<s>>
  ELSE IF strLess(s, Head(sorted)) THEN <<s>> \o sorted
  ELSE <<Head(sorted)>> \o insertSorted(Tail(sorted), s)

\* Array.prototype.sort(): the elements in code-unit order
RECURSIVE sort(_)
sort(seq) == IF seq = <<>> THEN <<>> ELSE insertSorted(sort(Tail(seq)), Head(seq))

\* Array.prototype.join
RECURSIVE join(_, _)
join(list, sep) ==
  IF list = <<>> THEN <<>>
  ELSE IF Len(list) = 1 THEN list[1]
  ELSE list[1] \o sep \o join(Tail(list), sep)

\* ------------------------------------------------------------------------
\* Tag vocabulary
\* ------------------------------------------------------------------------

BASE_LABELS ==
  << (* Airline/Hotel Name *)
     <<"A","i","r","l","i","n","e","/","H","o","t","e","l"," ","N","a","m","e">>,
     (* Approved Amount *)
     <<"A","p","p","r","o","v","e","d"," ","A","m","o","u","n","t">>,
     (* Assessment Report Summary *)
     <<"A","s","s","e","s","s","m","e","n","t"," ","R","e","p","o","r","t"," ","S","u","m","m","a","r","y">>,
     (* Claim Amount *)
     <<"C","l","a","i","m"," ","A","m","o","u","n","t">>,
     (* Claim Cause *)
     <<"C","l","a","i","m"," ","C","a","u","s","e">>,
     (* Claim Submission Date *)
     <<"C","l","a","i","m"," ","S","u","b","m","i","s","s","i","o","n"," ","D","a","t","e">>,
     (* Disease *)
     <<"D","i","s","e","a","s","e">>,
     (* Estimated Loss Value *)
     <<"E","s","t","i","m","a","t","e","d"," ","L","o","s","s"," ","V","a","l","u","e">>,
     (* Garage Name *)
     <<"G","a","r","a","g","e"," ","N","a","m","e">>,
     (* Hospital Name *)
     <<"H","o","s","p","i","t","a","l"," ","N","a","m","e">>,
     (* Hospital Stay Duration *)
     <<"H","o","s","p","i","t","a","l"," ","S","t","a","y"," ","D","u","r","a","t","i","o","n">>,
     (* Incident Description *)
     <<"I","n","c","i","d","e","n","t"," ","D","e","s","c","r","i","p","t","i","o","n">>,
     (* Part Damaged *)
     <<"P","a","r","t"," ","D","a","m","a","g","e","d">>,
     (* Policy Duration *)
     <<"P","o","l","i","c","y"," ","D","u","r","a","t","i","o","n">>,
     (* Policy Name *)
     <<"P","o","l","i","c","y"," ","N","a","m","e">>,
     (* Property Damage Type *)
     <<"P","r","o","p","e","r","t","y"," ","D","a","m","a","g","e"," ","T","y","p","e">>,
     (* Reason for Claim *)
     <<"R","e","a","s","o","n"," ","f","o","r"," ","C","l","a","i","m">>,
     (* Reimbursement Type *)
     <<"R","e","i","m","b","u","r","s","e","m","e","n","t"," ","T","y","p","e">>,
     (* Repair Estimate *)
     <<"R","e","p","a","i","r"," ","E","s","t","i","m","a","t","e">>,
     (* Room Type *)
     <<"R","o","o","m"," ","T","y","p","e">>,
     (* Settlement Date *)
     <<"S","e","t","t","l","e","m","e","n","t"," ","D","a","t","e">>,
     (* Travel Claim Type *)
     <<"T","r","a","v","e","l"," ","C","l","a","i","m"," ","T","y","p","e">>,
     (* Treatment Type *)
     <<"T","r","e","a","t","m","e","n","t"," ","T","y","p","e">>,
     (* Trip Destination *)
     <<"T","r","i","p"," ","D","e","s","t","i","n","a","t","i","o","n">>,
     (* Vehicle Type *)
     <<"V","e","h","i","c","l","e"," ","T","y","p","e">> >>

TagO == <<"O">>
PrefixB == <<"B","-">>
PrefixI == <<"I","-">>

RECURSIVE pushLabels(_, _)
pushLabels(tags, labels) ==
  IF labels = <<>> THEN tags
  ELSE pushLabels(tags \o <<PrefixB \o Head(labels), PrefixI \o Head(labels)>>, Tail(labels))

RAW_TAGS == pushLabels(<<TagO>>, BASE_LABELS)

\* RAW_TAGS.sort(), made once when the module is loaded
VARIABLE NER_TAGS


\* ------------------------------------------------------------------------
\* Tokenizer / encoder
\* ------------------------------------------------------------------------

PAD == <<"[","P","A","D","]">>

\* \w of a JavaScript regular expression: [A-Za-z0-9_]
isWordChar(c) ==
  LET n == charCode(c)
  IN (n >= 48 /\ n <= 57) \/ (n >= 65 /\ n <= 90) \/ (n >= 97 /\ n <= 122) \/ n = 95

\* [\w']
isTokenChar(c) == isWordChar(c) \/ c = "'"

\* [.,!?;]
isPunct(c) == c \in {".", ",", "!", "?", ";"}

\* \s (the only white space among the modelled characters is the blank)
isSpace(c) == c = " "

\* \b before position p (1..Len(s)+1): exactly one side is a \w character
wordBoundary(s, p) ==
  LET before == p > 1 /\ isWordChar(s[p - 1])
      after == p <= Len(s) /\ isWordChar(s[p])
  IN before # after

\* the longest run of [\w'] characters starting at p
RECURSIVE runLength(_, _)
runLength(s, p) ==
  IF p <= Len(s) /\ isTokenChar(s[p]) THEN 1 + runLength(s, p + 1) ELSE 0

\* \b[\w']+\b at p: the length of the greedy match after backtracking, 0 for none
wordMatchLength(s, p) ==
  LET fits == {n \in 1..runLength(s, p) : wordBoundary(s, p + n)}
  IN IF wordBoundary(s, p) /\ fits # {}
     THEN CHOOSE n \in fits : \A m \in fits : m <= n
     ELSE 0

\* text.match(/\b[\w']+\b|[.,!?;]/g), from position p on; <<>> stands for null
RECURSIVE matchTokens(_, _)
matchTokens(s, p) ==
  IF p > Len(s) THEN <<>>
  ELSE IF wordMatchLength(s, p) > 0
       THEN <<SubSeq(s, p, p + wordMatchLength(s, p) - 1)>>
              \o matchTokens(s, p + wordMatchLength(s, p))
  ELSE IF isPunct(s[p]) THEN <<<<s[p]>>>> \o matchTokens(s, p + 1)
  ELSE matchTokens(s, p + 1)

\* text.split(/\s+/): the pieces between runs of white space, empty ones included
RECURSIVE splitSpaces(_, _, _)
splitSpaces(s, p, piece) ==
  IF p > Len(s) THEN <<piece>>
  ELSE IF isSpace(s[p])
       THEN IF p > 1 /\ isSpace(s[p - 1])
            THEN splitSpaces(s, p + 1, piece)
            ELSE <<piece>> \o splitSpaces(s, p + 1, <<>>)
  ELSE splitSpaces(s, p + 1, piece \o <<s[p]>>)

\* inputWords before truncation
tokenize(text) ==
  IF matchTokens(text, 1) # <<>> THEN matchTokens(text, 1) ELSE splitSpaces(text, 1, <<>>)

\* Array.prototype.slice(0, n)
\* a variant of slice that cuts nothing
sliceKeepsAll(list, n) == list

slice(list, n) == SubSeq(list, 1, IF n < Len(list) THEN n ELSE Len(list))

\* A JavaScript number that holds an integer, as hi * 65536 + lo with
\* 0 <= lo < 65536, so that values past 32 bits are kept exactly
wide(hi, lo) == [hi |-> hi + (lo \div 65536), lo |-> lo % 65536]

\* hash << 5: ToInt32 of the number, shifted left by 5 within 32 bits, signed
shiftLeft5(h) ==
  LET low == h.lo * 32
      high == (h.hi * 32 + (low \div 65536)) % 65536
  IN wide(IF high >= 32768 THEN high - 65536 ELSE high, low % 65536)

\* one round of the loop: ((hash << 5) - hash) + w.charCodeAt(i)
hashRound(h, c) ==
  wide(shiftLeft5(h).hi - h.hi, shiftLeft5(h).lo - h.lo + charCode(c))

\* the hash after the characters of w from position p on
RECURSIVE hashFrom(_, _, _)
hashFrom(w, p, h) == IF p > Len(w) THEN h ELSE hashFrom(w, p + 1, hashRound(h, w[p]))

\* Math.abs
abs(h) == IF h.hi < 0 THEN wide(-h.hi, -h.lo) ELSE h

\* h % 1000 for h >= 0 (65536 leaves 536)
mod1000(h) == ((h.hi % 1000) * 536 + h.lo) % 1000

\* a variant of dummyHash that leaves Math.abs out: the remainder of a
\* negative hash keeps its sign
dummyHashSigned(w) ==
  IF hashFrom(w, 1, wide(0, 0)).hi < 0
  THEN 1 - mod1000(abs(hashFrom(w, 1, wide(0, 0))))
  ELSE mod1000(hashFrom(w, 1, wide(0, 0))) + 1

\* the index of a word when there is no vocabulary
dummyHash(w) == mod1000(abs(hashFrom(w, 1, wide(0, 0)))) + 1

\* the names every object parsed from JSON inherits from Object.prototype
ObjectPrototypeKeys ==
  { <<"c","o","n","s","t","r","u","c","t","o","r">>,
    <<"t","o","S","t","r","i","n","g">>,
    <<"t","o","L","o","c","a","l","e","S","t","r","i","n","g">>,
    <<"v","a","l","u","e","O","f">>,
    <<"h","a","s","O","w","n","P","r","o","p","e","r","t","y">>,
    <<"i","s","P","r","o","t","o","t","y","p","e","O","f">>,
    <<"p","r","o","p","e","r","t","y","I","s","E","n","u","m","e","r","a","b","l","e">>,
    <<"_","_","p","r","o","t","o","_","_">> }

\* stands for an inherited member (a function or the prototype object) where
\* an index is expected: it is truthy and it is no number of any vocabulary
InheritedMember == -1

\* wordIndex[key]: <<>> for undefined, else <<value>>; the own entry first,
\* then the members inherited from Object.prototype
property(vocabulary, key) ==
  IF key \in DOMAIN vocabulary THEN <<vocabulary[key]>>
  ELSE IF key \in ObjectPrototypeKeys THEN <<InheritedMember>>
  ELSE <<>>

\* a || b on property reads: a when it is there and not 0, else b
orElse(a, b) == IF a # <<>> /\ a[1] # 0 THEN a ELSE b

\* the index of a word under a vocabulary
lookupIndex(vocabulary, w) ==
  orElse(orElse(property(vocabulary, w), property(vocabulary, toLowerCase(w))), <<1>>)[1]

\* the callback of inputWords.map: the index of one word
tokenId(vocabulary, w) ==
  IF vocabulary # <<>> THEN lookupIndex(vocabulary[1], w) ELSE dummyHash(w)

\* the while loop that pads the indices to the sequence length
padIds(ids, length) == ids \o [k \in 1..(length - Len(ids)) |-> 0]

\* ------------------------------------------------------------------------
\* Entity router and domain scorer
\* ------------------------------------------------------------------------

\* the keywords of the substring tests, as written in the source
kw_hospital == <<"h","o","s","p","i","t","a","l">>
kw_disease == <<"d","i","s","e","a","s","e">>
kw_treatment == <<"t","r","e","a","t","m","e","n","t">>
kw_room == <<"r","o","o","m">>
kw_vehicle == <<"v","e","h","i","c","l","e">>
kw_garage == <<"g","a","r","a","g","e">>
kw_part == <<"p","a","r","t">>
kw_repair == <<"r","e","p","a","i","r">>
kw_trip == <<"t","r","i","p">>
kw_travel == <<"t","r","a","v","e","l">>
kw_airline == <<"a","i","r","l","i","n","e">>
kw_hotel == <<"h","o","t","e","l">>
kw_property == <<"p","r","o","p","e","r","t","y">>
kw_loss == <<"l","o","s","s">>
kw_assessment == <<"a","s","s","e","s","s","m","e","n","t">>
kw_claimant == <<"c","l","a","i","m","a","n","t">>
kw_name == <<"n","a","m","e">>
kw_date == <<"d","a","t","e">>
kw_location == <<"l","o","c","a","t","i","o","n">>
kw_destination == <<"d","e","s","t","i","n","a","t","i","o","n">>
kw_amount == <<"a","m","o","u","n","t">>
kw_cost == <<"c","o","s","t">>
kw_value == <<"v","a","l","u","e">>
kw_estimate == <<"e","s","t","i","m","a","t","e">>
kw_policy == <<"p","o","l","i","c","y">>
kw_type == <<"t","y","p","e">>
kw_cause == <<"c","a","u","s","e">>

includesAny(t, words) == \E w \in words : includes(t, w)

\* a string is truthy iff it is not empty
truthy(s) == s # <<>>

emptyBuckets ==
  [parties |-> <<>>, dates |-> <<>>, locations |-> <<>>,
   costs |-> <<>>, policies |-> <<>>, types |-> <<>>]

partyWords == {kw_claimant, kw_name, kw_hospital, kw_garage, kw_airline}
dateWords == {kw_date}
locationWords == {kw_location, kw_destination}
costWords == {kw_amount, kw_cost, kw_value, kw_estimate}
policyWords == {kw_policy}
typeWords == {kw_type, kw_cause}

\* a variant of addToExtraction that tests the type name as it is written
addToExtractionExact(container, type, value) ==
  LET push(list, words) == IF includesAny(type, words) THEN Append(list, value) ELSE list
  IN [parties |-> push(container.parties, partyWords),
      dates |-> push(container.dates, dateWords),
      locations |-> push(container.locations, locationWords),
      costs |-> push(container.costs, costWords),
      policies |-> push(container.policies, policyWords),
      types |-> push(container.types, typeWords)]

addToExtraction(container, type, value) ==
  LET t == toLowerCase(type)
      push(list, words) == IF includesAny(t, words) THEN Append(list, value) ELSE list
  IN [parties |-> push(container.parties, partyWords),
      dates |-> push(container.dates, dateWords),
      locations |-> push(container.locations, locationWords),
      costs |-> push(container.costs, costWords),
      policies |-> push(container.policies, policyWords),
      types |-> push(container.types, typeWords)]

\* fixed texts that the program never takes apart are written as one piece
Medical == <<"Medical / Health Claim">>
Motor == <<"Motor / Auto Claim">>
Travel == <<"Travel Insurance Claim">>
Home == <<"Home / Property Claim">>

\* the keys of domainScores in declaration order, which Object.entries keeps
DOMAINS == <<Medical, Motor, Travel, Home>>

domainWords ==
  << {kw_hospital, kw_disease, kw_treatment, kw_room},
     {kw_vehicle, kw_garage, kw_part, kw_repair},
     {kw_trip, kw_travel, kw_airline, kw_hotel},
     {kw_property, kw_loss, kw_assessment} >>

domainScores == [d \in 1..4 |-> 0]

\* the scoring lines of one position whose tag is not O
addScores(scores, tag) ==
  LET t == toLowerCase(tag)
  IN [d \in 1..4 |-> IF includesAny(t, domainWords[d]) THEN scores[d] + 2 ELSE scores[d]]

\* a variant of takesLead that lets an equal score take the lead
takesLeadOnTie(score, maxScore) == score >= maxScore

\* the comparison by which a domain takes the lead
takesLead(score, maxScore) == score > maxScore

\* Object.entries(domainScores).forEach(...), from domain d on
RECURSIVE scanDomains(_, _, _, _)
scanDomains(scores, d, maxScore, leader) ==
  IF d > Len(DOMAINS) THEN [maxScore |-> maxScore, identifiedType |-> leader]
  ELSE IF takesLead(scores[d], maxScore)
       THEN scanDomains(scores, d + 1, scores[d], DOMAINS[d])
  ELSE scanDomains(scores, d + 1, maxScore, leader)

\* ------------------------------------------------------------------------
\* Sequence decoder
\* ------------------------------------------------------------------------

\* an absent value (null, undefined) is the empty tuple, a present one <<v>>
Null == <<>>
Some(v) == <<v>>

\* getTag of the decoder: the uploaded tag map when there is one, else the
\* built-in sorted list; "O" for an index that resolves to nothing
getTag(tagMap, idx) ==
  IF tagMap # Null
  THEN IF idx \in DOMAIN tagMap[1] /\ truthy(tagMap[1][idx]) THEN tagMap[1][idx] ELSE TagO
  ELSE IF idx >= 0 /\ idx < Len(NER_TAGS) THEN NER_TAGS[idx + 1] ELSE TagO

\* what one position does to the open span; emit holds the call of
\* addToExtraction it makes, if any, as <<type, value>>
stitch(entity, tagType, word, tag) ==
  IF startsWith(tag, PrefixB)
  THEN [emit |-> IF truthy(entity) THEN << <<tagType, entity>> >> ELSE <<>>,
        entity |-> word,
        tagType |-> substring(tag, 2)]
  ELSE IF startsWith(tag, PrefixI) /\ tagType = substring(tag, 2)
  THEN [emit |-> <<>>,
        entity |-> entity \o <<" ">> \o word,
        tagType |-> tagType]
  ELSE IF truthy(entity)
  THEN [emit |-> << <<tagType, entity>> >>, entity |-> <<>>, tagType |-> <<>>]
  ELSE [emit |-> <<>>, entity |-> entity, tagType |-> tagType]

\* the addToExtraction call after the loop, if any
finalEmit(entity, tagType) == IF truthy(entity) THEN << <<tagType, entity>> >> ELSE <<>>

\* the router applied to the calls of one step
route(container, calls) ==
  IF calls = <<>> THEN container ELSE addToExtraction(container, calls[1][1], calls[1][2])

\* the key topic of one position
topicOf(tag, word) == removeFirst(removeFirst(tag, PrefixB), PrefixI) \o <<":", " ">> \o word

\* Set.prototype.add on a set kept in insertion order
setAdd(set, v) == IF \E k \in 1..Len(set) : set[k] = v THEN set ELSE Append(set, v)

\* ------------------------------------------------------------------------
\* Fixed texts and program constants
\* ------------------------------------------------------------------------

UnknownIncident == <<"Unknown Incident">>
GeneralClaim == <<"General Claim">>
GeneralIncident == <<"General Incident">>
ModelError == <<"Model Error">>
ExecutionFailed == <<"Execution Failed">>
NoEntitiesFound == <<"No Entities Found">>
ClassificationResult == <<"Classification Result">>
NotSpecified == <<"Not specified">>
Unknown == <<"Unknown">>

DefaultSeqLength == 512
MinSequence == 10
MaxTopics == 15

\* ------------------------------------------------------------------------
\* The reply of the hosted model and its parsing (geminiService.ts)
\* ------------------------------------------------------------------------

\* A reply text is a tuple of pieces: the three-backtick fence, the word
\* json, white space, an opening brace, a closing brace, the members of a
\* complete verification record, and words that are no JSON.
ReplyPieces == {"fence", "json", " ", "{", "}", "members", "prose"}

\* the fields every verification record is to carry
RequiredFields == {"is_eligible", "reasoning", "confidence_score"}

\* the record the members piece spells out
CompleteRecord ==
  [is_eligible |-> TRUE, policy_matched |-> <<"policy">>, reasoning |-> <<"reasoning">>,
   suggested_policy |-> <<"None">>, confidence_score |-> 1]

\* the object {}
EmptyObject == [f \in {} |-> 0]

\* String.prototype.trim
RECURSIVE trimStart(_)
trimStart(s) == IF s # <<>> /\ s[1] = " " THEN trimStart(Tail(s)) ELSE s

RECURSIVE trimEnd(_)
trimEnd(s) == IF s # <<>> /\ s[Len(s)] = " " THEN trimEnd(SubSeq(s, 1, Len(s) - 1)) ELSE s

trim(s) == trimEnd(trimStart(s))

\* replace(/^```(?:json)?/, "") on a text that starts with the fence
stripFenceStart(s) == IF Len(s) >= 2 /\ s[2] = "json" THEN SubSeq(s, 3, Len(s)) ELSE Tail(s)

\* replace(/```$/, "")
stripFenceEnd(s) == IF s # <<>> /\ s[Len(s)] = "fence" THEN SubSeq(s, 1, Len(s) - 1) ELSE s

isNoSpace(c) == c # " "

\* JSON.parse: Null when it throws, Some(value) otherwise; white space
\* between the tokens does not count
jsonParse(s) ==
  IF SelectSeq(s, isNoSpace) = <<"{", "members", "}">> THEN Some(CompleteRecord)
  ELSE IF SelectSeq(s, isNoSpace) = <<"{", "}">> THEN Some(EmptyObject)
  ELSE Null

\* indexOf and lastIndexOf of a piece, 1-based, 0 when it is absent
indexOf(s, c) ==
  IF \E k \in 1..Len(s) : s[k] = c
  THEN CHOOSE k \in 1..Len(s) : s[k] = c /\ \A j \in 1..(k - 1) : s[j] # c
  ELSE 0

lastIndexOf(s, c) ==
  IF \E k \in 1..Len(s) : s[k] = c
  THEN CHOOSE k \in 1..Len(s) : s[k] = c /\ \A j \in (k + 1)..Len(s) : s[j] # c
  ELSE 0

\* the text after the trims and the removal of the fence
cleaned(s) ==
  trim(IF trim(s) # <<>> /\ trim(s)[1] = "fence"
       THEN stripFenceEnd(stripFenceStart(trim(s)))
       ELSE trim(s))

\* the second attempt: the text from the first opening brace to the last
\* closing brace
braced(clean) ==
  IF indexOf(clean, "{") # 0 /\ lastIndexOf(clean, "}") # 0
     /\ lastIndexOf(clean, "}") > indexOf(clean, "{")
  THEN jsonParse(SubSeq(clean, indexOf(clean, "{"), lastIndexOf(clean, "}")))
  ELSE Null

\* cleanAndParseJson(text, fallback): Some(value) when it returns, Null when
\* it throws; reply is Null for an undefined text, Some(text) otherwise
cleanAndParseJson(reply, fallback) ==
  IF reply = Null \/ reply[1] = <<>> THEN Some(fallback)
  ELSE IF cleaned(reply[1]) = <<>> THEN Some(fallback)
  ELSE IF jsonParse(cleaned(reply[1])) # Null THEN jsonParse(cleaned(reply[1]))
  ELSE braced(cleaned(reply[1]))

\* the record verifyClaimEligibilityLocal returns when the browser is offline
OfflineResult ==
  [is_eligible |-> FALSE, policy_matched |-> <<"N/A">>, confidence_score |-> 0,
   reasoning |-> <<"Offline Mode: Verification requires internet.">>,
   suggested_policy |-> <<"Offline">>]

\* a variant of the offline test that never holds
neverOffline(onLine) == FALSE

\* if (!navigator.onLine)
offline(onLine) == ~onLine

\* ------------------------------------------------------------------------
\* Inputs
\* ------------------------------------------------------------------------

\* the longest claim text tried
MaxTextLen == 3

\* the characters of a claim text: a word character, a punctuation token,
\* white space, a symbol that is neither
Chars == {"a", ".", " ", "@"}

RECURSIVE textsUpTo(_)
textsUpTo(n) ==
  IF n = 0 THEN {<<>>}
  ELSE textsUpTo(n - 1) \cup {Append(t, c) : t \in {u \in textsUpTo(n - 1) : Len(u) = n - 1}, c \in Chars}

\* three more texts of one word each: a capitalised word, a word that names a
\* member of Object.prototype, a word whose hash leaves the 32-bit range
ExtraTexts ==
  { <<"A","a">>,
    <<"c","o","n","s","t","r","u","c","t","o","r">>,
    <<"z","z","z","z","z","z","z","z","z","z","z","z">> }

Texts == textsUpTo(MaxTextLen) \cup ExtraTexts

\* texts of ten to thirteen tokens, around the shortest sequence length a
\* model can declare, for the tokenization step alone
LongTexts ==
  { [k \in 1..n |-> "."] : n \in 10..13 }
    \cup { <<"a",".","a",".","a",".","a",".","a",".","a",".","a">> }

\* what the loader may return: the declared input shape and the methods
ModelChoices ==
  { [hasShape |-> TRUE, lastDim |-> 11, predict |-> TRUE, executeAsync |-> FALSE],
    [hasShape |-> TRUE, lastDim |-> 0, predict |-> FALSE, executeAsync |-> TRUE],
    [hasShape |-> TRUE, lastDim |-> 5, predict |-> TRUE, executeAsync |-> FALSE],
    [hasShape |-> FALSE, lastDim |-> 0, predict |-> FALSE, executeAsync |-> FALSE] }

\* an uploaded tag map (idx2tag of model_assets.json)
UploadedTags ==
  (0 :> TagO)
  @@ (1 :> <<"B","-","H","o","s","p","i","t","a","l">>)
  @@ (2 :> <<"I","-","H","o","s","p","i","t","a","l">>)
  @@ (3 :> <<"B","-","G","a","r","a","g","e">>)
  @@ (4 :> <<"B","-","D","a","t","e">>)
  @@ (5 :> <<"B","-","H","o","t","e","l"," ","R","o","o","m"," ","T","y","p","e">>)

\* an uploaded vocabulary (word_index of model_assets.json)
UploadedVocabulary == (<<"a">> :> 2) @@ (<<".">> :> 3) @@ (<<"a","a">> :> 4)

\* the assets file of an upload: none, one that does not parse, or one that
\* parses and holds both fields
AssetsChoices ==
  { [given |-> FALSE, parses |-> FALSE, word_index |-> Null, idx2tag |-> Null],
    [given |-> TRUE, parses |-> FALSE, word_index |-> Null, idx2tag |-> Null],
    [given |-> TRUE, parses |-> TRUE, word_index |-> Some(UploadedVocabulary),
     idx2tag |-> Some(UploadedTags)] }

\* the longest reply text tried, in pieces
MaxReplyLen == 1

RECURSIVE repliesUpTo(_)
repliesUpTo(n) ==
  IF n = 0 THEN {<<>>}
  ELSE repliesUpTo(n - 1)
         \cup {Append(t, c) : t \in {u \in repliesUpTo(n - 1) : Len(u) = n - 1}, c \in ReplyPieces}

\* longer replies: the bare record, the record in a fence with and without
\* the word json, the record inside prose, a record cut short
ExtraReplies ==
  { <<"{", "members", "}">>,
    <<"fence", "json", " ", "{", "members", "}", " ", "fence">>,
    <<" ", "fence", " ", "{", "members", "}", "fence", " ">>,
    <<"prose", " ", "{", "members", "}", " ", "prose">>,
    <<"fence", "json", " ", "{", "}", "fence">>,
    <<"{", "members">>,
    <<"{", "prose", "}">> }

\* what generateContent may hand back: a rejection, a response without
\* text, a response with a text
Responses ==
  {[ok |-> FALSE, text |-> Null], [ok |-> TRUE, text |-> Null]}
    \cup {[ok |-> TRUE, text |-> Some(t)] : t \in repliesUpTo(MaxReplyLen) \cup ExtraReplies}

\* the number of callers of loadLocalModel: the runs of the pre-load effect
\* and the extractions that need the embedding
MaxCallers == 2

Callers == 1..MaxCallers

\* the arg-max indices tried at a position: with the built-in list, B-Claim
\* Cause, B-Estimated Loss Value, B-Hospital Name, B-Trip Destination,
\* I-Hospital Name, O and an index past the list; with the uploaded map, its
\* six entries and an index it lacks
predictedIndices(tagMap) ==
  IF tagMap = Null THEN {4, 7, 9, 23, 34, 50, 51} ELSE {0, 1, 2, 3, 4, 5, 6}

\* the numbers of classes of a model whose output is not a tag tensor
ClassCounts == {2, 16}

\* ------------------------------------------------------------------------
\* State
\* ------------------------------------------------------------------------

VARIABLES
  windowTf,          \* window.tf is defined
  windowUse,         \* window.use is defined
  useModel,          \* the embedding model handle is set
  customModel,       \* Null or Some(model)
  wordIndex,         \* Null or Some(vocabulary)
  idx2tag,           \* Null or Some(tag map)
  pc,                \* where the extractClaimDetailsLocal call stands
  text,              \* its argument
  inputWords,
  tokenIds,          \* the index of each word, 0 for a pad
  i,
  currentEntity,
  currentTagType,
  extractedEntities,
  foundTopicsSet,
  scores,            \* domainScores
  keyTopics,
  identifiedType,
  description,
  result,            \* Null until the call resolves, then Some(record)
  tags,              \* history: the tags of the positions decoded so far
  emitted,           \* history: the calls of addToExtraction, in order
  spanStart,         \* history: the position whose B- tag set currentEntity
  outcome,           \* history: how the call went, "" while it runs
  usePc,             \* where each caller's loadLocalModel call stands
  useGot,            \* the handle each caller was handed, 0 for none
  useLoads,          \* history: the number of use.load() calls that resolved
  useHandle,         \* the handle useModel holds, 0 for none
  vpc,               \* where the verification call stands
  response,          \* Null or Some(what generateContent handed back)
  verification,      \* Null or Some(the record the call resolved to)
  verifyLog,         \* history: what the verification call saw and did
  status,            \* the form's processing status
  localModelReady,   \* the form's flag that enables Process in local mode
  customModelLoaded, \* the form's flag set by a load that succeeded
  loadPc,            \* where the loadCustomModelFromFiles call stands
  loadFiles,         \* Null or Some(the files that call was given)
  firstLoad,         \* history: Null or Some(what the first successful load stored)
  loadBefore,        \* history: Null or Some(what was stored when the load under way began)
  modelSource,       \* the model source chosen in the form: "default" or "custom"
  extractionResult,  \* Null or Some(record)
  verificationResult, \* Null or Some(result)
  errorMsg,          \* Null or Some(message)
  verifying,         \* history: Null or Some(the record handed to the verification call
                     \* of the form that is under way)
  userFiles,         \* the uploads the user has at hand: assets file and model files
  mode,              \* the mode the form is shown in: "cloud" or "local"
  invoked,           \* history: how each invocation of the model in this call ended
  indices,           \* history: the arg-max index read at each position of the loop
  knowledgeBase,     \* App's documents state: the ids of the documents, in order
  uploads,           \* the number of files the page has read into the knowledge base
  isOpen,            \* the chat window is open
  chatSessionRef,    \* Null or Some(the document list the session was created from)
  isLoading,         \* a chat message is awaiting its reply
  sentTo             \* history: Null or Some(session and list of the last message sent)

moduleVars == <<NER_TAGS, windowTf, windowUse, useModel, customModel, wordIndex, idx2tag>>
decodeVars == <<i, currentEntity, currentTagType, extractedEntities, foundTopicsSet,
                scores, tags, emitted, spanStart, indices>>
outVars == <<keyTopics, identifiedType, description, result>>
useVars == <<usePc, useGot, useLoads, useHandle>>
verifyVars == <<vpc, response, verification, verifyLog>>
serviceVars == <<useVars, verifyVars>>
extractVars == <<pc, text, inputWords, tokenIds, decodeVars, outVars, outcome, invoked>>
panelVars == <<modelSource, extractionResult, verificationResult, errorMsg, verifying,
               userFiles, mode>>
formVars == <<status, localModelReady, customModelLoaded, loadPc, loadFiles, firstLoad,
              loadBefore, panelVars>>
outerVars == <<serviceVars, formVars>>
chatVars == <<knowledgeBase, uploads, isOpen, chatSessionRef, isLoading, sentTo>>
vars == <<moduleVars, extractVars, outerVars, chatVars>>

\* ------------------------------------------------------------------------
\* Initial state
\* ------------------------------------------------------------------------

\* the locals of a call as its first lines set them
FreshCall ==
  /\ inputWords = <<>>
  /\ tokenIds = <<>>
  /\ i = 0
  /\ currentEntity = <<>>
  /\ currentTagType = <<>>
  /\ extractedEntities = emptyBuckets
  /\ foundTopicsSet = <<>>
  /\ scores = domainScores
  /\ keyTopics = <<GeneralClaim>>
  /\ identifiedType = UnknownIncident
  /\ description = <<>>
  /\ result = Null
  /\ tags = <<>>
  /\ emitted = <<>>
  /\ invoked = <<>>
  /\ indices = <<>>
  /\ spanStart = -1
  /\ outcome = ""

\* no loadLocalModel call and no verification call has been made
NoVerification == [local |-> FALSE, onLine |-> FALSE, client |-> FALSE, network |-> FALSE]

ServicesIdle ==
  /\ usePc = [c \in Callers |-> "none"]
  /\ useGot = [c \in Callers |-> 0]
  /\ useLoads = 0
  /\ useHandle = 0
  /\ vpc = "idle"
  /\ response = Null
  /\ verification = Null
  /\ verifyLog = NoVerification

\* src/constants.ts: the knowledge base the page starts with and resets to
SAMPLE_DOCUMENTS == <<"default-sample">>

\* the page and the chat widget as mounted: the sample document, the chat window
\* closed, no session (the first effect ran with isOpen false), nothing sent
ChatIdle ==
  /\ knowledgeBase = SAMPLE_DOCUMENTS
  /\ uploads = 0
  /\ isOpen = FALSE
  /\ chatSessionRef = Null
  /\ isLoading = FALSE
  /\ sentTo = Null

\* no Process run has left anything in the form
NoResults ==
  /\ extractionResult = Null
  /\ verificationResult = Null
  /\ errorMsg = Null
  /\ verifying = Null

\* the form as mounted: nothing loaded, nothing under way
FormIdle ==
  /\ status = "IDLE"
  /\ localModelReady = FALSE
  /\ customModelLoaded = FALSE
  /\ loadPc = "none"
  /\ loadFiles = Null
  /\ firstLoad = Null
  /\ loadBefore = Null
  /\ modelSource = "default"
  /\ userFiles = {}
  /\ mode = "local"
  /\ NoResults

Init ==
  /\ NER_TAGS = sort(RAW_TAGS)
  /\ ChatIdle
  /\ windowTf \in BOOLEAN
  /\ windowUse \in BOOLEAN
  /\ useModel = FALSE
  /\ customModel = Null
  /\ wordIndex = Null
  /\ idx2tag = Null
  /\ pc = "idle"
  /\ text = <<>>
  /\ FreshCall
  /\ ServicesIdle
  /\ FormIdle

\* ------------------------------------------------------------------------
\* Loading
\* ------------------------------------------------------------------------

\* loadCustomModelFromFiles, called while no extraction is under way.  A
\* throw before the assets are read (no tf, no topology file, no weights)
\* changes nothing; after that the assets are stored whether or not a loader
\* then succeeds.
LoadCustomModelFromFiles ==
  /\ pc = "idle"
  /\ \E hasModelJson \in BOOLEAN, hasBin \in BOOLEAN, assets \in AssetsChoices,
        loaded \in {"layers", "graph", "none"}, model \in ModelChoices :
       IF ~windowTf \/ ~hasModelJson \/ ~hasBin
       THEN UNCHANGED <<customModel, wordIndex, idx2tag>>
       ELSE /\ wordIndex' = IF ~assets.given THEN Null
                            ELSE IF assets.parses /\ assets.word_index # Null
                                 THEN assets.word_index
                            ELSE wordIndex
            /\ idx2tag' = IF ~assets.given THEN Null
                          ELSE IF assets.parses /\ assets.idx2tag # Null
                               THEN assets.idx2tag
                          ELSE idx2tag
            /\ customModel' = IF loaded = "none" THEN customModel ELSE Some(model)
  /\ UNCHANGED <<NER_TAGS, chatVars, windowTf, windowUse, useModel, pc, text, inputWords, tokenIds, decodeVars,
                 outVars, outcome>>
  /\ UNCHANGED <<outerVars, invoked>>

\* loadLocalModel, called by the form's pre-load while no extraction is
\* under way; a call that throws or finds the handle set changes nothing
LoadLocalModel ==
  /\ pc = "idle"
  /\ ~useModel
  /\ windowUse
  /\ windowTf
  /\ useModel' = TRUE
  /\ UNCHANGED <<NER_TAGS, chatVars, windowTf, windowUse, customModel, wordIndex, idx2tag, pc, text,
                 inputWords, tokenIds, decodeVars, outVars, outcome>>
  /\ UNCHANGED <<outerVars, invoked>>

\* ------------------------------------------------------------------------
\* extractClaimDetailsLocal
\* ------------------------------------------------------------------------

seqLength(model) ==
  IF model.hasShape /\ model.lastDim > 1 THEN model.lastDim ELSE DefaultSeqLength

requiresSequence(model) == model.hasShape /\ seqLength(model) > MinSequence

\* the while loop that pads the words to the sequence length
padWords(words, length) == words \o [k \in 1..(length - Len(words)) |-> PAD]

\* list[0] || fallback
firstOr(list, fallback) == IF list # <<>> /\ truthy(list[1]) THEN list[1] ELSE fallback

\* a variant of customRecord that reads the date from the cost bucket and
\* joins the locations without the space
customRecordMixed(type, entities, desc, topics) ==
  [incident_type |-> type,
   incident_date |-> firstOr(entities.costs, NotSpecified),
   location |-> IF truthy(join(entities.locations, <<",">>))
                THEN join(entities.locations, <<",">>)
                ELSE NotSpecified,
   involved_parties |-> IF Len(entities.parties) > 0 THEN entities.parties ELSE <<Unknown>>,
   damage_description |-> desc,
   key_topics |-> topics,
   estimated_cost |-> firstOr(entities.costs, NotSpecified)]

\* the record returned on the custom-model path
customRecord(type, entities, desc, topics) ==
  [incident_type |-> type,
   incident_date |-> firstOr(entities.dates, NotSpecified),
   location |-> IF truthy(join(entities.locations, <<",", " ">>))
                THEN join(entities.locations, <<",", " ">>)
                ELSE NotSpecified,
   involved_parties |-> IF Len(entities.parties) > 0 THEN entities.parties ELSE <<Unknown>>,
   damage_description |-> desc,
   key_topics |-> topics,
   estimated_cost |-> firstOr(entities.costs, NotSpecified)]

\* the record returned on the embedding path
fallbackRecord(type, desc, topics) ==
  [incident_type |-> type,
   incident_date |-> NotSpecified,
   location |-> NotSpecified,
   involved_parties |-> <<Unknown>>,
   damage_description |-> desc,
   key_topics |-> topics,
   estimated_cost |-> NotSpecified]

\* the call starts: getTf() throws outside every try when window.tf is
\* missing; otherwise the path is chosen by customModel
startCall(t) ==
  /\ pc = "idle"
  /\ text' = t
  /\ pc' = IF ~windowTf THEN "rejected"
           ELSE IF customModel # Null THEN "prepare"
           ELSE "fallback"
  /\ outcome' = IF ~windowTf THEN "rejected" ELSE outcome
  /\ UNCHANGED <<moduleVars, chatVars, inputWords, tokenIds, decodeVars, outVars>>

\* a call with any of the texts
Start ==
  /\ \E t \in Texts : startCall(t)
  /\ UNCHANGED <<outerVars, invoked>>

\* steps 1 and 2 of the custom path: inspect the model input, then tokenize,
\* truncate, index and pad, or, for a model that takes no sequence, embed the
\* text.  What tf.tensor2d does with an index that is no number is the
\* library's affair: it may build the tensor or throw.
PrepareInput ==
  /\ pc = "prepare"
  /\ LET model == customModel[1]
     IN IF requiresSequence(model)
        THEN \E words \in {slice(tokenize(text), seqLength(model))} :
             \E ids \in {[k \in 1..Len(words) |-> tokenId(wordIndex, words[k])]} :
               /\ inputWords' = padWords(words, seqLength(model))
               /\ tokenIds' = padIds(ids, seqLength(model))
               /\ \/ pc' = "execute" /\ UNCHANGED outcome
                  \/ /\ \E k \in 1..Len(ids) : ids[k] = InheritedMember
                     /\ pc' = "caught"
                     /\ outcome' = "encode failed"
               /\ UNCHANGED useModel
        ELSE \E loadOk \in BOOLEAN, embedOk \in BOOLEAN :
               /\ useModel' = (useModel \/ (windowUse /\ loadOk))
               /\ IF useModel' /\ embedOk
                  THEN pc' = "execute" /\ UNCHANGED outcome
                  ELSE pc' = "caught" /\ outcome' = "encode failed"
               /\ UNCHANGED <<inputWords, tokenIds>>
  /\ UNCHANGED <<NER_TAGS, chatVars, windowTf, windowUse, customModel, wordIndex, idx2tag, text,
                 decodeVars, outVars>>
  /\ UNCHANGED <<outerVars, invoked>>

\* step 3, first invocation: predict, or executeAsync with named inputs
Execute ==
  /\ pc = "execute"
  /\ LET model == customModel[1]
     IN IF model.predict
        THEN \E how \in {"ok", "dtype", "error"} :
               /\ pc' = CASE how = "ok" -> "output"
                          [] how = "dtype" -> "retry"
                          [] OTHER -> "caught"
               /\ outcome' = IF how = "error" THEN "execute failed" ELSE outcome
               /\ invoked' = Append(invoked, IF how = "ok" THEN "ok" ELSE "failed")
        ELSE IF model.executeAsync
        THEN \E how \in {"ok", "error"} :
               /\ pc' = IF how = "ok" THEN "output" ELSE "retry"
               /\ invoked' = Append(invoked, IF how = "ok" THEN "ok" ELSE "failed")
               /\ UNCHANGED outcome
        ELSE pc' = "caught" /\ outcome' = "execute failed" /\ UNCHANGED invoked
  /\ UNCHANGED <<moduleVars, chatVars, text, inputWords, tokenIds, decodeVars, outVars>>
  /\ UNCHANGED outerVars

\* step 3, second invocation: predict on the cast tensor, or executeAsync
\* with the tensor array
\* a variant of Retry that lets the failure of the second invocation
\* leave the call as a rejection
RetryRejects ==
  /\ pc = "retry"
  /\ \E ok \in BOOLEAN :
       /\ IF ok THEN pc' = "output" /\ UNCHANGED outcome
          ELSE pc' = "rejected" /\ outcome' = "rejected"
       /\ invoked' = Append(invoked, IF ok THEN "ok" ELSE "failed")
  /\ UNCHANGED <<moduleVars, chatVars, text, inputWords, tokenIds, decodeVars, outVars>>
  /\ UNCHANGED outerVars

Retry ==
  /\ pc = "retry"
  /\ \E ok \in BOOLEAN :
       /\ IF ok THEN pc' = "output" /\ UNCHANGED outcome
          ELSE pc' = "caught" /\ outcome' = "execute failed"
       /\ invoked' = Append(invoked, IF ok THEN "ok" ELSE "failed")
  /\ UNCHANGED <<moduleVars, chatVars, text, inputWords, tokenIds, decodeVars, outVars>>
  /\ UNCHANGED outerVars

\* output normalisation, the shape test and the read of the output data: a
\* tag tensor goes to the decode loop, any other output is listed by class
ReadOutput ==
  /\ pc = "output"
  /\ \/ /\ pc' = "decode"
        /\ UNCHANGED <<outVars, outcome>>
     \/ /\ pc' = "caught"
        /\ outcome' = "output failed"
        /\ UNCHANGED outVars
     \/ \E n \in ClassCounts :
          /\ identifiedType' = ClassificationResult
          /\ keyTopics' = [k \in 1..n |-> <<"Class ", k - 1, ": value">>]
          /\ result' = Some(customRecord(identifiedType', extractedEntities,
                                         description, keyTopics'))
          /\ pc' = "resolved"
          /\ outcome' = "classified"
          /\ UNCHANGED description
  /\ UNCHANGED <<moduleVars, chatVars, text, inputWords, tokenIds, decodeVars>>
  /\ UNCHANGED <<outerVars, invoked>>

\* a variant of typeHint that takes the newest type hint
typeHintLast(maxScore, types, leader) ==
  IF maxScore = 0 /\ Len(types) > 0 THEN types[Len(types)] ELSE leader

\* the fallback to the first type hint when no domain scored
typeHint(maxScore, types, leader) ==
  IF maxScore = 0 /\ Len(types) > 0 THEN types[1] ELSE leader

\* one iteration of the decode loop: the tag of position i is read, a pad
\* word ends the loop, any other word is stitched, recorded and scored
DecodeStep ==
  /\ pc = "decode"
  /\ i < Len(inputWords)
  /\ \E idx \in predictedIndices(idx2tag) :
     \E thisWord \in {inputWords[i + 1]}, thisTag \in {getTag(idx2tag, idx)} :
     \E step \in {stitch(currentEntity, currentTagType, thisWord, thisTag)} :
          IF thisWord = PAD
          THEN /\ pc' = "finish"
               /\ UNCHANGED decodeVars
          ELSE /\ currentEntity' = step.entity
               /\ currentTagType' = step.tagType
               /\ extractedEntities' = route(extractedEntities, step.emit)
               /\ emitted' = emitted \o [k \in 1..Len(step.emit) |->
                                [type |-> step.emit[k][1], value |-> step.emit[k][2],
                                 start |-> spanStart]]
               /\ spanStart' = IF startsWith(thisTag, PrefixB) THEN i
                               ELSE IF step.entity = <<>> /\ step.tagType = <<>> THEN -1
                               ELSE spanStart
               /\ foundTopicsSet' = IF thisTag # TagO THEN setAdd(foundTopicsSet, topicOf(thisTag, thisWord))
                                    ELSE foundTopicsSet
               /\ scores' = IF thisTag # TagO THEN addScores(scores, thisTag) ELSE scores
               /\ tags' = Append(tags, thisTag)
               /\ indices' = Append(indices, idx)
               /\ i' = i + 1
               /\ pc' = "decode"
  /\ UNCHANGED <<moduleVars, chatVars, text, inputWords, tokenIds, outVars, outcome>>
  /\ UNCHANGED <<outerVars, invoked>>

\* after the loop: the open span is handed over, the key topics are cut to
\* their cap, the incident type is chosen and the record is returned
DecodeFinish ==
  /\ \/ pc = "finish"
     \/ pc = "decode" /\ i >= Len(inputWords)
  /\ \E last \in {finalEmit(currentEntity, currentTagType)} :
     \E entities \in {route(extractedEntities, last)},
        topics \in {slice(foundTopicsSet, MaxTopics)},
        pick \in {scanDomains(scores, 1, 0, identifiedType)} :
        /\ extractedEntities' = entities
        /\ emitted' = emitted \o [k \in 1..Len(last) |->
                          [type |-> last[k][1], value |-> last[k][2], start |-> spanStart]]
        /\ keyTopics' = IF Len(topics) = 0 THEN <<NoEntitiesFound>> ELSE topics
        /\ identifiedType' = typeHint(pick.maxScore, entities.types, pick.identifiedType)
        /\ description' = <<"Extracted entities using Custom Model. Classified as: ">>
                            \o identifiedType'
        /\ result' = Some(customRecord(identifiedType', entities, description', keyTopics'))
  /\ pc' = "resolved"
  /\ outcome' = "decoded"
  /\ UNCHANGED <<moduleVars, chatVars, text, inputWords, tokenIds, i, currentEntity, currentTagType,
                 foundTopicsSet, scores, tags, spanStart, indices>>
  /\ UNCHANGED <<outerVars, invoked>>

\* a variant of CatchError that leaves the key topics as they were
CatchErrorKeepsTopics ==
  /\ pc = "caught"
  /\ identifiedType' = ModelError
  /\ description' = <<"Error: ", "message">>
  /\ result' = Some(customRecord(identifiedType', extractedEntities, description', keyTopics))
  /\ pc' = "resolved"
  /\ UNCHANGED <<moduleVars, chatVars, text, inputWords, tokenIds, decodeVars, outcome, keyTopics>>
  /\ UNCHANGED <<outerVars, invoked>>

\* the catch block of the custom path, and the return after it
CatchError ==
  /\ pc = "caught"
  /\ identifiedType' = ModelError
  /\ description' = <<"Error: ", "message">>
  /\ keyTopics' = <<ExecutionFailed>>
  /\ result' = Some(customRecord(identifiedType', extractedEntities, description', keyTopics'))
  /\ pc' = "resolved"
  /\ UNCHANGED <<moduleVars, chatVars, text, inputWords, tokenIds, decodeVars, outcome>>
  /\ UNCHANGED <<outerVars, invoked>>

\* the embedding path: every failure of loading or embedding is swallowed
Fallback ==
  /\ pc = "fallback"
  /\ \E loadOk \in BOOLEAN, embedOk \in BOOLEAN :
       /\ useModel' = (useModel \/ (windowUse /\ loadOk))
       /\ IF useModel' /\ embedOk
          THEN /\ keyTopics' = <<GeneralClaim>>
               /\ identifiedType' = GeneralIncident
               /\ outcome' = "embedded"
          ELSE /\ UNCHANGED <<keyTopics, identifiedType>>
               /\ outcome' = "embed failed"
       /\ result' = Some(fallbackRecord(identifiedType', description, keyTopics'))
  /\ pc' = "resolved"
  /\ UNCHANGED <<NER_TAGS, chatVars, windowTf, windowUse, customModel, wordIndex, idx2tag, text,
                 inputWords, tokenIds, decodeVars, description>>
  /\ UNCHANGED <<outerVars, invoked>>

\* the caller takes the outcome; the next call starts from fresh locals
deliver ==
  /\ pc \in {"resolved", "rejected"}
  /\ pc' = "idle"
  /\ text' = <<>>
  /\ inputWords' = <<>>
  /\ tokenIds' = <<>>
  /\ i' = 0
  /\ currentEntity' = <<>>
  /\ currentTagType' = <<>>
  /\ extractedEntities' = emptyBuckets
  /\ foundTopicsSet' = <<>>
  /\ scores' = domainScores
  /\ keyTopics' = <<GeneralClaim>>
  /\ identifiedType' = UnknownIncident
  /\ description' = <<>>
  /\ result' = Null
  /\ tags' = <<>>
  /\ emitted' = <<>>
  /\ spanStart' = -1
  /\ invoked' = <<>>
  /\ indices' = <<>>
  /\ outcome' = ""
  /\ UNCHANGED <<moduleVars, chatVars>>

\* a caller that does nothing else with the outcome
Deliver ==
  /\ deliver
  /\ UNCHANGED outerVars

Next ==
  \/ LoadCustomModelFromFiles
  \/ LoadLocalModel
  \/ Start
  \/ PrepareInput
  \/ Execute
  \/ Retry
  \/ ReadOutput
  \/ DecodeStep
  \/ DecodeFinish
  \/ CatchError
  \/ Fallback
  \/ Deliver

Spec == Init /\ [][Next]_vars

\* ------------------------------------------------------------------------
\* The tokenization step alone, over more texts and every vocabulary
\* ------------------------------------------------------------------------

\* a call that has reached step 2 with a model loaded: the text is any of
\* Texts or LongTexts, the vocabulary is absent or the uploaded one
InitTokens ==
  /\ NER_TAGS = sort(RAW_TAGS)
  /\ ChatIdle
  /\ windowTf = TRUE
  /\ windowUse \in BOOLEAN
  /\ useModel = FALSE
  /\ customModel \in {Some(m) : m \in ModelChoices}
  /\ \E assets \in AssetsChoices : wordIndex = assets.word_index /\ idx2tag = assets.idx2tag
  /\ pc = "prepare"
  /\ text \in Texts \cup LongTexts
  /\ FreshCall
  /\ ServicesIdle
  /\ FormIdle

NextTokens == PrepareInput

SpecTokens == InitTokens /\ [][NextTokens]_vars

\* ------------------------------------------------------------------------
\* The services as their callers see them: loadLocalModel split at its
\* awaits, called by several callers, and one verification call at a time
\* ------------------------------------------------------------------------

\* a caller calls loadLocalModel: a handle already set is returned at
\* once; otherwise getUse() and getTf() throw when the library is missing,
\* and the call waits for tf.ready()
LoadLocalModelStart ==
  /\ \E c \in Callers :
       /\ usePc[c] = "none"
       /\ IF useModel
          THEN /\ usePc' = [usePc EXCEPT ![c] = "returned"]
               /\ useGot' = [useGot EXCEPT ![c] = useHandle]
          ELSE /\ usePc' = [usePc EXCEPT ![c] =
                               IF windowUse /\ windowTf THEN "ready" ELSE "rejected"]
               /\ UNCHANGED useGot
  /\ UNCHANGED <<moduleVars, chatVars, extractVars, useLoads, useHandle, verifyVars>>
  /\ UNCHANGED formVars

\* tf.ready() has resolved for a caller: use.load() is called
LoadLocalModelReady ==
  /\ \E c \in Callers :
       /\ usePc[c] = "ready"
       /\ usePc' = [usePc EXCEPT ![c] = "loading"]
  /\ UNCHANGED <<moduleVars, chatVars, extractVars, useGot, useLoads, useHandle, verifyVars>>
  /\ UNCHANGED formVars

\* a caller's use.load() settles: a new handle is stored in useModel and
\* returned, or the call rejects
LoadLocalModelSettle ==
  /\ \E c \in Callers, loaded \in BOOLEAN :
       /\ usePc[c] = "loading"
       /\ IF loaded
          THEN /\ useLoads' = useLoads + 1
               /\ useHandle' = useLoads'
               /\ useModel' = TRUE
               /\ useGot' = [useGot EXCEPT ![c] = useHandle']
               /\ usePc' = [usePc EXCEPT ![c] = "returned"]
          ELSE /\ usePc' = [usePc EXCEPT ![c] = "rejected"]
               /\ UNCHANGED <<useLoads, useHandle, useModel, useGot>>
  /\ UNCHANGED <<NER_TAGS, chatVars, windowTf, windowUse, customModel, wordIndex, idx2tag,
                 extractVars, verifyVars>>
  /\ UNCHANGED formVars

\* verifyClaimEligibility is called, directly or through
\* verifyClaimEligibilityLocal: the offline test of the local entry, then
\* getAiClient(), outside every try, then generateContent
verifyCall(local) ==
  /\ vpc = "idle"
  /\ \E onLine \in BOOLEAN, hasKey \in BOOLEAN :
       IF local /\ offline(onLine)
       THEN /\ vpc' = "resolved"
            /\ verification' = Some(OfflineResult)
            /\ verifyLog' = [local |-> local, onLine |-> onLine,
                             client |-> FALSE, network |-> FALSE]
       ELSE IF ~hasKey
       THEN /\ vpc' = "rejected"
            /\ verification' = Null
            /\ verifyLog' = [local |-> local, onLine |-> onLine,
                             client |-> FALSE, network |-> FALSE]
       ELSE /\ vpc' = "awaiting"
            /\ verification' = Null
            /\ verifyLog' = [local |-> local, onLine |-> onLine,
                             client |-> TRUE, network |-> TRUE]
  /\ response' = Null

\* a call through either entry
VerifyCall ==
  /\ \E local \in BOOLEAN : verifyCall(local)
  /\ UNCHANGED <<moduleVars, chatVars, extractVars, useVars, formVars>>

\* generateContent settles
ResponseArrives ==
  /\ vpc = "awaiting"
  /\ \E r \in Responses : response' = Some(r)
  /\ vpc' = "arrived"
  /\ UNCHANGED <<moduleVars, chatVars, extractVars, useVars, verification, verifyLog>>
  /\ UNCHANGED formVars

\* the rest of the try block: the reply is parsed with {} as the fallback;
\* a rejection or a throw of the parser goes to the catch, which throws
VerifyContinue ==
  /\ vpc = "arrived"
  /\ \E parsed \in {IF response[1].ok THEN cleanAndParseJson(response[1].text, EmptyObject)
                     ELSE Null} :
       IF parsed = Null
       THEN vpc' = "rejected" /\ verification' = Null
       ELSE vpc' = "resolved" /\ verification' = parsed
  /\ UNCHANGED <<moduleVars, chatVars, extractVars, useVars, response, verifyLog>>
  /\ UNCHANGED formVars

\* the caller takes the outcome of the verification call
verifyReturn ==
  /\ vpc \in {"resolved", "rejected"}
  /\ vpc' = "idle"
  /\ response' = Null
  /\ verification' = Null
  /\ verifyLog' = NoVerification

\* a caller that does nothing else with the outcome
VerifyReturn ==
  /\ verifyReturn
  /\ UNCHANGED <<moduleVars, chatVars, extractVars, useVars, formVars>>

NextServices ==
  \/ LoadLocalModelStart
  \/ LoadLocalModelReady
  \/ LoadLocalModelSettle
  \/ VerifyCall
  \/ ResponseArrives
  \/ VerifyContinue
  \/ VerifyReturn

SpecServices == Init /\ [][NextServices]_vars

\* ------------------------------------------------------------------------
\* The form in local mode (ClaimsProcessor.tsx): Load Custom Model and
\* Process, each split at its awaits.  One load and one Process are
\* followed at a time.  A step of the load runs while the extraction is
\* idle or waits for the data of the model output (line 240), and not
\* while the verification waits.
\* ------------------------------------------------------------------------

\* the texts typed into the form
FormTexts == { <<"a">> }

\* the models uploaded through the form
FormModels == {m \in ModelChoices : m.hasShape /\ m.lastDim \in {0, 11}}

\* the uploads tried in the form: no assets file or one that does not
\* parse with one model, an assets file that parses with the other
FormUploads ==
  {u \in [assets : AssetsChoices, model : FormModels] : u.model.predict # u.assets.parses}

\* a variant of the assignment of the loaded model that keeps a model
\* loaded before
keepLoaded(current, loaded) == IF current # Null THEN current ELSE Some(loaded)

\* customModel = await tf.loadLayersModel(...), and the same for loadGraphModel
assignLoaded(current, loaded) == Some(loaded)

\* the extraction is at a point where another handler can run
LoadMayRun == pc \in {"idle", "output"} /\ vpc = "idle"

\* what the form is given when Process is pressed: the text typed and
\* whether a file is attached
FormInputs ==
  {[text |-> t, file |-> f] : t \in FormTexts, f \in BOOLEAN}
    \cup {[text |-> <<" ">>, file |-> FALSE]}

\* the numbers of documents in the knowledge base
DocumentCounts == {0, 1}

\* the messages the form shows
NoEvidence == <<"Please provide text description or upload evidence.">>
NoDocuments == <<"Please add at least one policy document to the Knowledge Base.">>
ProcessingFailed == <<"An error occurred during processing. Please try again.">>
LibraryMissing == <<"TensorFlow.js library not loaded.">>
MissingTopology == <<"Missing model topology file (model.json).">>
MissingWeights == <<"Missing binary weights. Please include all .bin files.">>
LoadFailed == <<"Model load failed: ", "message">>

\* the form after the user chose the custom source; the pre-load of the
\* embedding model has or has not run
InitForm ==
  /\ NER_TAGS = sort(RAW_TAGS)
  /\ ChatIdle
  /\ windowTf \in BOOLEAN
  /\ windowUse \in BOOLEAN
  /\ useModel \in {u \in BOOLEAN : u => (windowTf /\ windowUse)}
  /\ customModel = Null
  /\ wordIndex = Null
  /\ idx2tag = Null
  /\ pc = "idle"
  /\ text = <<>>
  /\ FreshCall
  /\ ServicesIdle
  /\ status = "IDLE"
  /\ localModelReady = useModel
  /\ customModelLoaded = FALSE
  /\ loadPc = "none"
  /\ loadFiles = Null
  /\ firstLoad = Null
  /\ loadBefore = Null
  /\ modelSource = "custom"
  /\ userFiles = FormUploads
  /\ mode = "local"
  /\ NoResults

\* what the catch and finally blocks of handleLoadCustomModel set
loadFailed(message) ==
  /\ errorMsg' = Some(message)
  /\ customModelLoaded' = FALSE
  /\ status' = "IDLE"
  /\ loadPc' = "none"
  /\ loadFiles' = Null
  /\ loadBefore' = Null
  /\ UNCHANGED <<localModelReady, firstLoad, modelSource, extractionResult,
                 verificationResult, verifying, userFiles, mode>>

\* what handleLoadCustomModel sets after the loader returned
loadSucceeded ==
  /\ customModelLoaded' = TRUE
  /\ localModelReady' = TRUE
  /\ status' = "IDLE"
  /\ loadPc' = "none"
  /\ loadFiles' = Null
  /\ loadBefore' = Null
  /\ firstLoad' = IF firstLoad # Null THEN firstLoad
                  ELSE Some([model |-> customModel', wordIndex |-> wordIndex,
                             idx2tag |-> idx2tag])
  /\ UNCHANGED panelVars

\* Load Custom Model is pressed with a topology file and weights chosen
\* (the button is shown for the custom source): the status shows loading,
\* the message is cleared and the loader is called; getTf() throws when
\* the library is missing, otherwise the call waits for tf.ready()
HandleLoadCustomModel ==
  /\ mode = "local"
  /\ modelSource = "custom"
  /\ loadPc = "none"
  /\ LoadMayRun
  /\ \E upload \in userFiles :
       IF ~windowTf
       THEN loadFailed(LibraryMissing)
       ELSE /\ status' = "EXTRACTING"
            /\ errorMsg' = Null
            /\ loadPc' = "ready"
            /\ loadFiles' = Some(upload)
            /\ loadBefore' = Some([model |-> customModel, wordIndex |-> wordIndex,
                                   idx2tag |-> idx2tag])
            /\ UNCHANGED <<localModelReady, customModelLoaded, firstLoad, modelSource,
                           extractionResult, verificationResult, verifying, userFiles, mode>>
  /\ UNCHANGED <<moduleVars, chatVars, extractVars, serviceVars>>

\* tf.ready() has resolved: the files are told apart by their names, and
\* the call throws when none is a topology file or none a weight file;
\* with an assets file the call waits for its text, without one the
\* vocabulary and the tag map are cleared and the layers loader is called
LoadFilesIdentified ==
  /\ loadPc = "ready"
  /\ LoadMayRun
  /\ \E named \in {"both", "no topology", "no weights"} :
       IF named # "both"
       THEN /\ loadFailed(IF named = "no topology" THEN MissingTopology ELSE MissingWeights)
            /\ UNCHANGED <<wordIndex, idx2tag>>
       ELSE /\ IF loadFiles[1].assets.given
               THEN /\ loadPc' = "assets"
                    /\ UNCHANGED <<wordIndex, idx2tag>>
               ELSE /\ loadPc' = "layers"
                    /\ wordIndex' = Null
                    /\ idx2tag' = Null
            /\ UNCHANGED <<status, localModelReady, customModelLoaded, loadFiles,
                           firstLoad, loadBefore, panelVars>>
  /\ UNCHANGED <<NER_TAGS, chatVars, windowTf, windowUse, useModel, customModel, extractVars,
                 serviceVars>>

\* the text of the assets file has arrived: each field that the parsed
\* object holds is stored, a text that does not parse is only logged; then
\* the layers loader is called
LoadAssetsRead ==
  /\ loadPc = "assets"
  /\ LoadMayRun
  /\ \E assets \in {loadFiles[1].assets} :
       /\ wordIndex' = IF assets.parses /\ assets.word_index # Null
                       THEN assets.word_index ELSE wordIndex
       /\ idx2tag' = IF assets.parses /\ assets.idx2tag # Null
                     THEN assets.idx2tag ELSE idx2tag
  /\ loadPc' = "layers"
  /\ UNCHANGED <<NER_TAGS, chatVars, windowTf, windowUse, useModel, customModel, extractVars,
                 serviceVars, status, localModelReady, customModelLoaded, loadFiles,
                 firstLoad, loadBefore, panelVars>>

\* loadLayersModel settles: the model is stored and the handler sets its
\* flags, or the graph loader is called
LoadLayersSettles ==
  /\ loadPc = "layers"
  /\ LoadMayRun
  /\ \E loaded \in BOOLEAN :
       IF loaded
       THEN /\ customModel' = assignLoaded(customModel, loadFiles[1].model)
            /\ loadSucceeded
       ELSE /\ loadPc' = "graph"
            /\ UNCHANGED <<customModel, status, localModelReady, customModelLoaded,
                           loadFiles, firstLoad, loadBefore, panelVars>>
  /\ UNCHANGED <<NER_TAGS, chatVars, windowTf, windowUse, useModel, wordIndex, idx2tag, extractVars,
                 serviceVars>>

\* loadGraphModel settles: the model is stored, or the loader throws
LoadGraphSettles ==
  /\ loadPc = "graph"
  /\ LoadMayRun
  /\ \E loaded \in BOOLEAN :
       IF loaded
       THEN /\ customModel' = assignLoaded(customModel, loadFiles[1].model)
            /\ loadSucceeded
       ELSE /\ loadFailed(LoadFailed)
            /\ UNCHANGED customModel
  /\ UNCHANGED <<NER_TAGS, chatVars, windowTf, windowUse, useModel, wordIndex, idx2tag, extractVars,
                 serviceVars>>

\* a variant of refused that lacks the test of the knowledge base
refusedForTextOnly(input, documents) ==
  IF trim(input.text) = <<>> /\ ~input.file THEN Some(NoEvidence) ELSE Null

\* the two guards of handleProcess: nothing to process, or no document
refused(input, documents) ==
  IF trim(input.text) = <<>> /\ ~input.file THEN Some(NoEvidence)
  ELSE IF documents = 0 THEN Some(NoDocuments)
  ELSE Null

\* extractClaimDetails of the cloud service is called: getAiClient(),
\* outside the try block, throws without a key; otherwise the call waits
\* for generateContent
startCloud(t) ==
  /\ pc = "idle"
  /\ text' = t
  /\ \E hasKey \in BOOLEAN :
       /\ pc' = IF hasKey THEN "cloud" ELSE "rejected"
       /\ outcome' = IF hasKey THEN "cloud" ELSE "rejected"
  /\ UNCHANGED <<moduleVars, chatVars, inputWords, tokenIds, decodeVars, outVars>>

\* handleProcess with what the form holds: a refused request only sets the
\* message; any other sets the status, clears the message and both results
\* and calls the extraction of the mode
processRequest(input, documents) ==
  /\ IF refused(input, documents) # Null
     THEN /\ errorMsg' = refused(input, documents)
          /\ UNCHANGED <<moduleVars, chatVars, extractVars, status, extractionResult,
                         verificationResult>>
     ELSE /\ IF mode = "cloud" THEN startCloud(input.text) ELSE startCall(input.text)
          /\ status' = "EXTRACTING"
          /\ errorMsg' = Null
          /\ extractionResult' = Null
          /\ verificationResult' = Null
          /\ UNCHANGED invoked
  /\ UNCHANGED <<serviceVars, localModelReady, customModelLoaded, loadPc, loadFiles, firstLoad,
                 loadBefore, modelSource, verifying, userFiles, mode>>

\* Process is pressed: the button is enabled unless the status is
\* EXTRACTING or VERIFYING or, in local mode, the local model is not ready.
\* A request is followed when no call of an earlier run is under way.
HandleProcess ==
  /\ status \notin {"EXTRACTING", "VERIFYING"}
  /\ mode = "local" => localModelReady
  /\ pc = "idle"
  /\ vpc = "idle"
  /\ \E input \in FormInputs, documents \in DocumentCounts : processRequest(input, documents)

\* the record the members piece spells out when an extraction was asked for
CloudExtraction ==
  [incident_type |-> <<"incident">>, incident_date |-> <<"date">>,
   location |-> <<"location">>, involved_parties |-> << <<"party">> >>,
   damage_description |-> <<"description">>, key_topics |-> << <<"topic">> >>,
   estimated_cost |-> <<"cost">>]

\* generateContent of the cloud extraction settles: the reply is parsed
\* with {} as the fallback; a rejection or a throw of the parser goes to
\* the catch, which throws
CloudExtractSettles ==
  /\ pc = "cloud"
  /\ \E r \in Responses :
     \E parsed \in {IF r.ok THEN cleanAndParseJson(r.text, EmptyObject) ELSE Null} :
       IF parsed = Null
       THEN /\ pc' = "rejected"
            /\ outcome' = "rejected"
            /\ UNCHANGED result
       ELSE /\ pc' = "resolved"
            /\ result' = IF parsed = Some(CompleteRecord) THEN Some(CloudExtraction) ELSE parsed
            /\ UNCHANGED outcome
  /\ UNCHANGED <<moduleVars, chatVars, text, inputWords, tokenIds, decodeVars, keyTopics, identifiedType,
                 description, invoked, outerVars>>

\* a variant of ProcessExtracted that goes on to verification whatever the
\* extraction call came to
ProcessExtractedAnyway ==
  /\ deliver
  /\ extractionResult' = result
  /\ status' = "VERIFYING"
  /\ verifyCall(mode = "local")
  /\ verifying' = result
  /\ UNCHANGED <<useVars, localModelReady, customModelLoaded, loadPc, loadFiles, firstLoad,
                 loadBefore, modelSource, verificationResult, errorMsg, userFiles, mode>>

\* the extraction has settled: a record is stored and goes on to
\* verification through the local entry, a rejection goes to the catch
\* block
ProcessExtracted ==
  /\ deliver
  /\ IF pc = "resolved"
     THEN /\ extractionResult' = result
          /\ status' = "VERIFYING"
          /\ verifyCall(mode = "local")
          /\ verifying' = result
          /\ UNCHANGED errorMsg
     ELSE /\ errorMsg' = Some(ProcessingFailed)
          /\ status' = "ERROR"
          /\ UNCHANGED <<verifyVars, extractionResult, verifying>>
  /\ UNCHANGED <<useVars, localModelReady, customModelLoaded, loadPc, loadFiles, firstLoad,
                 loadBefore, modelSource, verificationResult, userFiles, mode>>

\* the verification has settled: the result is stored, or the catch block
\* runs
ProcessVerified ==
  /\ verifying # Null
  /\ verifyReturn
  /\ IF vpc = "resolved"
     THEN /\ verificationResult' = verification
          /\ status' = "COMPLETED"
          /\ UNCHANGED errorMsg
     ELSE /\ errorMsg' = Some(ProcessingFailed)
          /\ status' = "ERROR"
          /\ UNCHANGED verificationResult
  /\ verifying' = Null
  /\ UNCHANGED <<moduleVars, chatVars, extractVars, useVars, localModelReady, customModelLoaded,
                 loadPc, loadFiles, firstLoad, loadBefore, modelSource, extractionResult,
                 userFiles, mode>>

NextForm ==
  \/ HandleLoadCustomModel
  \/ LoadFilesIdentified
  \/ LoadAssetsRead
  \/ LoadLayersSettles
  \/ LoadGraphSettles
  \/ HandleProcess
  \/ PrepareInput
  \/ Execute
  \/ Retry
  \/ ReadOutput
  \/ DecodeStep
  \/ DecodeFinish
  \/ CatchError
  \/ Fallback
  \/ ProcessExtracted
  \/ ResponseArrives
  \/ VerifyContinue
  \/ ProcessVerified

SpecForm == InitForm /\ [][NextForm]_vars

\* ------------------------------------------------------------------------
\* The whole panel of the form, in cloud or in local mode: the model
\* source radio, the demo scenarios, Load Custom Model and Process, with
\* one upload at hand
\* ------------------------------------------------------------------------

\* the upload at hand: model files with an assets file that does not parse
PanelUploads == {u \in FormUploads : u.assets.given /\ ~u.assets.parses}

\* the form as mounted with both libraries present, after the pre-load of
\* the embedding model
InitPanel ==
  /\ NER_TAGS = sort(RAW_TAGS)
  /\ ChatIdle
  /\ windowTf = TRUE
  /\ windowUse = TRUE
  /\ useModel = TRUE
  /\ customModel = Null
  /\ wordIndex = Null
  /\ idx2tag = Null
  /\ pc = "idle"
  /\ text = <<>>
  /\ FreshCall
  /\ ServicesIdle
  /\ status = "IDLE"
  /\ localModelReady = TRUE
  /\ customModelLoaded = FALSE
  /\ loadPc = "none"
  /\ loadFiles = Null
  /\ firstLoad = Null
  /\ loadBefore = Null
  /\ modelSource = "default"
  /\ userFiles = PanelUploads
  /\ mode \in {"cloud", "local"}
  /\ NoResults

\* a click is handled when no settled call waits for its caller: the
\* continuation of a settled await runs before the next event
UiMayRun ==
  pc \notin {"resolved", "rejected"} /\ vpc \notin {"arrived", "resolved", "rejected"}

\* the other model source is chosen; choosing the default source runs the
\* pre-load effect: loadLocalModel, and the ready flag when it resolves
SelectSource ==
  /\ mode = "local"
  /\ UiMayRun
  /\ \E source \in {"default", "custom"} \ {modelSource}, loaded \in BOOLEAN :
       /\ modelSource' = source
       /\ useModel' = (useModel \/ (source = "default" /\ windowUse /\ windowTf /\ loaded))
       /\ localModelReady' = (localModelReady \/ (source = "default" /\ useModel'))
  /\ UNCHANGED <<NER_TAGS, chatVars, windowTf, windowUse, customModel, wordIndex, idx2tag, extractVars,
                 serviceVars, status, customModelLoaded, loadPc, loadFiles, firstLoad,
                 loadBefore, extractionResult, verificationResult, errorMsg, verifying,
                 userFiles, mode>>

\* a demo scenario is clicked: its text is put in the input, the attachment
\* and both results are cleared and the status is set to IDLE
DemoScenario ==
  /\ UiMayRun
  /\ extractionResult' = Null
  /\ verificationResult' = Null
  /\ status' = "IDLE"
  /\ UNCHANGED <<moduleVars, chatVars, extractVars, serviceVars, localModelReady, customModelLoaded,
                 loadPc, loadFiles, firstLoad, loadBefore, modelSource, errorMsg, verifying,
                 userFiles, mode>>

NextPanel ==
  \/ NextForm
  \/ CloudExtractSettles
  \/ SelectSource
  \/ DemoScenario

SpecPanel == InitPanel /\ [][NextPanel]_vars

\* ------------------------------------------------------------------------
\* The router alone: addToExtraction applied to one container, span after
\* span, for every built-in label and some uploaded type names
\* ------------------------------------------------------------------------

\* the most spans routed into one container
MaxRouted == 2

\* the type names tried: the built-in labels, the types of the uploaded tag
\* map, and names in other cases that match two or no families
RouterTypes ==
  {BASE_LABELS[k] : k \in 1..Len(BASE_LABELS)}
    \cup {substring(UploadedTags[k], 2) : k \in 1..5}
    \cup { <<"C","L","A","I","M","A","N","T"," ","L","O","C","A","T","I","O","N">>,
           <<"p","o","l","i","c","y"," ","c","o","s","t">>,
           <<"O","t","h","e","r">> }

\* the text of the k-th span routed
routedText(k) == [j \in 1..k |-> "a"]

\* one call addToExtraction(extractedEntities, type, value)
RouteSpan ==
  /\ pc = "idle"
  /\ Len(emitted) < MaxRouted
  /\ \E type \in RouterTypes, value \in {routedText(Len(emitted) + 1)} :
       /\ extractedEntities' = addToExtraction(extractedEntities, type, value)
       /\ emitted' = Append(emitted, [type |-> type, value |-> value, start |-> Len(emitted)])
  /\ UNCHANGED <<moduleVars, chatVars, pc, text, inputWords, tokenIds, i, currentEntity, currentTagType,
                 foundTopicsSet, scores, tags, spanStart, indices, outVars, outcome, invoked,
                 outerVars>>

NextRouter == RouteSpan

SpecRouter == Init /\ [][NextRouter]_vars

\* ------------------------------------------------------------------------
\* Reference BIO stitcher
\* ------------------------------------------------------------------------

\* the span list with the open span, if there is one, added at its end
closeSpan(out, open) == IF open = Null THEN out ELSE Append(out, open[1])

\* the reference scan from the 1-based position p on: a B-T tag closes the
\* open span and opens one of type T, an I-T tag of the open span's type
\* appends the word after one space, any other tag closes the open span
RECURSIVE refScan(_, _, _, _, _)
refScan(words, tagList, p, open, out) ==
  IF p > Len(words) THEN [open |-> open, out |-> out]
  ELSE IF startsWith(tagList[p], PrefixB)
  THEN refScan(words, tagList, p + 1,
               Some([type |-> substring(tagList[p], 2), value |-> words[p], start |-> p - 1]),
               closeSpan(out, open))
  ELSE IF startsWith(tagList[p], PrefixI) /\ open # Null
          /\ open[1].type = substring(tagList[p], 2)
  THEN refScan(words, tagList, p + 1,
               Some([open[1] EXCEPT !.value = @ \o <<" ">> \o words[p]]), out)
  ELSE refScan(words, tagList, p + 1, Null, closeSpan(out, open))

\* the span the reference leaves open after the words
refOpen(words, tagList) == refScan(words, tagList, 1, Null, <<>>).open

\* the spans the reference emits, the one left open at the end included
refSpans(words, tagList) ==
  closeSpan(refScan(words, tagList, 1, Null, <<>>).out, refOpen(words, tagList))

\* the words the decode loop read before it stopped
wordsRead == SubSeq(inputWords, 1, Len(tags))

\* the call went through the decode loop and returned
Decoded == pc = "resolved" /\ outcome = "decoded"

\* twice the number of positions of tagList whose tag is not O and names a
\* keyword of domain d
tokenScore(tagList, d) ==
  2 * Cardinality({p \in 1..Len(tagList) :
        tagList[p] # TagO /\ includesAny(toLowerCase(tagList[p]), domainWords[d])})

\* twice the number of spans whose type names a keyword of domain d
spanScore(spans, d) ==
  2 * Cardinality({k \in 1..Len(spans) :
        includesAny(toLowerCase(spans[k].type), domainWords[d])})

\* the greatest score of a table
maxOf(table) == CHOOSE m \in {table[d] : d \in 1..4} : \A d \in 1..4 : table[d] <= m

\* ------------------------------------------------------------------------
\* Properties
\* ------------------------------------------------------------------------

\* C1: for every word list and tag list the decode loop hands the router
\* the spans of the reference BIO stitcher, in order, each with the
\* space-joined text of its tokens
C1_DecodeIsReferenceStitcher ==
  Decoded => emitted = refSpans(wordsRead, tags)

\* C2: a step whose tag is I-T while no span is open, or while the open span
\* has another type, leaves no span open, hands the open span (if any) to
\* the router with the text it had and hands over nothing else
C2_MismatchedInsideNeverExtends ==
  [][(/\ pc = "decode"
      /\ pc' = "decode"
      /\ i' = i + 1
      /\ startsWith(tags'[i + 1], PrefixI)
      /\ \/ refOpen(SubSeq(inputWords, 1, i), tags) = Null
         \/ refOpen(SubSeq(inputWords, 1, i), tags)[1].type # substring(tags'[i + 1], 2))
     => (/\ currentEntity' = <<>>
         /\ emitted' = closeSpan(emitted, refOpen(SubSeq(inputWords, 1, i), tags)))]_vars

\* C3: with k the first pad position, the loop reads exactly the k words
\* before it; every span, key topic and score comes from those positions;
\* and the span the reference has open at k-1 is the last one handed over
C3_PaddingTruncation ==
  Decoded =>
    /\ \A p \in 1..Len(tags) : inputWords[p] # PAD
    /\ Len(tags) < Len(inputWords) => inputWords[Len(tags) + 1] = PAD
    /\ \A k \in 1..Len(emitted) : emitted[k].start < Len(tags)
    /\ \A d \in 1..4 : scores[d] = tokenScore(tags, d)
    /\ \A k \in 1..Len(foundTopicsSet) :
         \E p \in 1..Len(tags) :
           tags[p] # TagO /\ foundTopicsSet[k] = topicOf(tags[p], inputWords[p])
    /\ refOpen(wordsRead, tags) # Null =>
         emitted # <<>> /\ emitted[Len(emitted)] = refOpen(wordsRead, tags)[1]

\* C4: every span that a B- tag opens before the first pad is handed to the
\* router exactly once
C4_EverySpanHandedOnce ==
  Decoded =>
    \A p \in 1..Len(tags) :
      startsWith(tags[p], PrefixB) =>
        Cardinality({k \in 1..Len(emitted) : emitted[k].start = p - 1}) = 1

\* C5: after decoding, each domain's score is twice the number of spans
\* whose lowercased type names one of the domain's keywords
C5_ScorePerSpan ==
  Decoded => \A d \in 1..4 : scores[d] = spanScore(refSpans(wordsRead, tags), d)

\* C6: when some score is positive, the incident type is the earliest
\* domain, in the order Medical, Motor, Travel, Home, that has the greatest
\* score
C6_MaxScoreEarliestWins ==
  (Decoded /\ maxOf(scores) > 0) =>
    \E d \in 1..4 :
      /\ scores[d] = maxOf(scores)
      /\ \A e \in 1..(d - 1) : scores[e] < maxOf(scores)
      /\ identifiedType = DOMAINS[d]

\* two domains share the greatest score and the earlier one was chosen
C6_Witness ==
  /\ Decoded
  /\ \E d \in 1..4, e \in 1..4 :
       /\ d < e
       /\ scores[d] > 0
       /\ scores[d] = maxOf(scores)
       /\ scores[e] = scores[d]
       /\ identifiedType = DOMAINS[d]

\* C7: when every score is zero after decoding, the incident type is the
\* first type hint if there is one and "Unknown Incident" otherwise; an
\* all-O tag sequence gives "Unknown Incident"
C7_ZeroScoreFallback ==
  /\ (Decoded /\ \A d \in 1..4 : scores[d] = 0) =>
       identifiedType = IF extractedEntities.types # <<>>
                        THEN extractedEntities.types[1]
                        ELSE UnknownIncident
  /\ (Decoded /\ \A p \in 1..Len(tags) : tags[p] = TagO) =>
       identifiedType = UnknownIncident

\* no domain scored and a type hint became the incident type
C7_Witness ==
  /\ Decoded
  /\ \A d \in 1..4 : scores[d] = 0
  /\ extractedEntities.types # <<>>
  /\ identifiedType = extractedEntities.types[1]
  /\ identifiedType # UnknownIncident

\* the custom-model path returned, in any of its ways
CustomReturned ==
  /\ pc = "resolved"
  /\ outcome \in {"decoded", "classified", "encode failed", "execute failed", "output failed"}

\* C8: the record of the custom-model path holds the first date or "Not
\* specified", the locations joined by ", " or "Not specified", the parties
\* or ["Unknown"], the first cost or "Not specified"
C8_RecordSubstitutions ==
  CustomReturned =>
    /\ result # Null
    /\ result[1].incident_date =
         IF extractedEntities.dates = <<>> THEN NotSpecified
         ELSE extractedEntities.dates[1]
    /\ result[1].location =
         IF extractedEntities.locations = <<>> THEN NotSpecified
         ELSE join(extractedEntities.locations, <<",", " ">>)
    /\ result[1].involved_parties =
         IF extractedEntities.parties = <<>> THEN <<Unknown>>
         ELSE extractedEntities.parties
    /\ result[1].estimated_cost =
         IF extractedEntities.costs = <<>> THEN NotSpecified
         ELSE extractedEntities.costs[1]

\* a record with two joined locations and the sentinels for date and parties
C8_Witness ==
  /\ Decoded
  /\ Len(extractedEntities.locations) = 2
  /\ result[1].location = <<"a", ",", " ", "a">>
  /\ result[1].incident_date = NotSpecified
  /\ result[1].involved_parties = <<Unknown>>

\* the tagging model call failed: the encoding, the invocation or the
\* handling of its output threw
ModelCallFailed ==
  /\ pc = "resolved"
  /\ outcome \in {"encode failed", "execute failed", "output failed"}

C10_NeverRejects == pc # "rejected"

\* the call has run step 2 on a model that takes a token sequence
Tokenized ==
  /\ pc \in {"execute", "caught"}
  /\ customModel # Null
  /\ requiresSequence(customModel[1])

\* the number of tokens of the text that fit the sequence
tokensKept ==
  IF Len(tokenize(text)) < seqLength(customModel[1])
  THEN Len(tokenize(text)) ELSE seqLength(customModel[1])

\* C17: for every text and every declared length L > 10, tokenization
\* yields exactly L words and L indices; the first min(n, L) are the
\* text's first tokens in order with their indices, every later entry is
\* the pad pair ("[PAD]", 0)
C17_TokenizationLength ==
  Tokenized =>
    /\ Len(inputWords) = seqLength(customModel[1])
    /\ Len(tokenIds) = seqLength(customModel[1])
    /\ \A k \in 1..seqLength(customModel[1]) :
         IF k <= tokensKept
         THEN /\ inputWords[k] = tokenize(text)[k]
              /\ tokenIds[k] = tokenId(wordIndex, tokenize(text)[k])
         ELSE /\ inputWords[k] = PAD
              /\ tokenIds[k] = 0

\* a text of more tokens than the sequence holds has been cut and indexed
C17_Witness ==
  /\ Tokenized
  /\ Len(tokenize(text)) > seqLength(customModel[1])
  /\ Len(inputWords) = seqLength(customModel[1])

\* the index the vocabulary rule gives a token: the entry of the exact
\* token, else the entry of its lowercase form, else 1
entryOrOne(vocabulary, w) ==
  IF w \in DOMAIN vocabulary THEN vocabulary[w]
  ELSE IF toLowerCase(w) \in DOMAIN vocabulary THEN vocabulary[toLowerCase(w)]
  ELSE 1

\* C18: with a vocabulary loaded, the index of every token is the
\* vocabulary's entry for the exact token when there is one, else its entry
\* for the lowercase form when there is one, else 1
C18_VocabularyLookup ==
  (Tokenized /\ wordIndex # Null) =>
    \A k \in 1..tokensKept : tokenIds[k] = entryOrOne(wordIndex[1], inputWords[k])

\* C19: with no vocabulary loaded, the index of every token, the empty one
\* and one of any length included, is an integer from 1 to 1000 fixed by
\* the token's characters, never the pad index 0
C19_HashedIndexRange ==
  (Tokenized /\ wordIndex = Null) =>
    \A k \in 1..tokensKept :
      /\ tokenIds[k] \in 1..1000
      /\ \A j \in 1..tokensKept : inputWords[j] = inputWords[k] => tokenIds[j] = tokenIds[k]

\* a token whose hash is negative and past 32 bits has been indexed
C19_Witness ==
  /\ Tokenized
  /\ wordIndex = Null
  /\ hashFrom(inputWords[1], 1, wide(0, 0)).hi < -32768
  /\ tokenIds[1] \in 1..1000

\* the key topics the span rule gives: one entry "type: text" for each
\* span, in the order the spans appear, an entry seen before left out
RECURSIVE spanTopics(_, _, _)
spanTopics(spans, k, out) ==
  IF k > Len(spans) THEN out
  ELSE spanTopics(spans, k + 1, setAdd(out, spans[k].type \o <<":", " ">> \o spans[k].value))

\* C20: on the custom tagging path key_topics holds one entry
\* "EntityType: surface text" for each span that is not O, with the whole
\* space-joined text of the span, in order of first appearance
C20_TopicPerSpan ==
  (Decoded /\ refSpans(wordsRead, tags) # <<>>) =>
    keyTopics = spanTopics(refSpans(wordsRead, tags), 1, <<>>)

\* C11: every verification call hands its caller a record with
\* is_eligible, reasoning and confidence_score; no call rejects and no call
\* resolves to a record that lacks one of them, whether the API key is
\* missing, the network call fails or the reply is empty or does not parse
C11_AlwaysARecord ==
  /\ vpc # "rejected"
  /\ vpc = "resolved" => RequiredFields \subseteq DOMAIN verification[1]

\* C12: a call of verifyClaimEligibilityLocal made while the browser is
\* offline resolves to the fixed offline record, creates no client of the
\* hosted model and makes no network call
C12_OfflineShortCircuit ==
  (vpc # "idle" /\ verifyLog.local /\ ~verifyLog.onLine) =>
    /\ vpc = "resolved"
    /\ verification = Some(OfflineResult)
    /\ ~verification[1].is_eligible
    /\ verification[1].confidence_score = 0
    /\ ~verifyLog.client
    /\ ~verifyLog.network

\* a local verification call made offline has resolved
C12_Witness ==
  /\ vpc = "resolved"
  /\ verifyLog.local
  /\ ~verifyLog.onLine
  /\ verification = Some(OfflineResult)

\* C13: under every interleaving of loadLocalModel calls the embedding
\* model is loaded at most once and every call returns the same handle
C13_EmbeddingLoadedOnce ==
  /\ useLoads <= 1
  /\ \A c \in Callers, d \in Callers :
       (useGot[c] # 0 /\ useGot[d] # 0) => useGot[c] = useGot[d]

\* the load call returns or throws at this step
LoadCompletes == loadPc \in {"layers", "graph"} /\ loadPc' = "none"

InCall == pc \notin {"idle", "resolved", "rejected"}

\* C15: under every interleaving of Process and Load Custom Model in the
\* form, the model, the word index and the tag map do not change between
\* the start and the end of one extractClaimDetailsLocal call, so the tag
\* map that decodes is the one current at tokenization, and no decode runs
\* while a load is under way
C15_StableDuringExtraction ==
  [][InCall =>
       /\ UNCHANGED <<customModel, wordIndex, idx2tag>>
       /\ pc' \in {"decode", "finish"} => loadPc' = "none"
    ]_vars

\* C16: when loadCustomModelFromFiles completes, the word index is present
\* only if the assets file of this load parsed and held word_index, and
\* the tag map only if it parsed and held idx2tag; after a parse failure or
\* a missing field the stored field is absent, whatever earlier loads
\* stored
C16_FieldsFromThisLoad ==
  [][LoadCompletes =>
       /\ wordIndex' # Null =>
            (/\ loadFiles[1].assets.given
             /\ loadFiles[1].assets.parses
             /\ loadFiles[1].assets.word_index # Null)
       /\ idx2tag' # Null =>
            (/\ loadFiles[1].assets.given
             /\ loadFiles[1].assets.parses
             /\ loadFiles[1].assets.idx2tag # Null)
    ]_vars

\* C21: every record extractClaimDetailsLocal returns, on the tagging path,
\* for a model output that is no tag tensor, after a model error and on the
\* embedding path, has a key_topics list without duplicates and of at most
\* 15 entries
C21_TopicsUniqueAndCapped ==
  result # Null =>
    /\ Len(result[1].key_topics) <= MaxTopics
    /\ \A j \in 1..Len(result[1].key_topics), k \in 1..Len(result[1].key_topics) :
         result[1].key_topics[j] = result[1].key_topics[k] => j = k

\* the keyword families of the claim, by bucket
RouterFamilies ==
  [parties |-> {kw_claimant, kw_name, kw_hospital, kw_garage, kw_airline},
   dates |-> {kw_date},
   locations |-> {kw_location, kw_destination},
   costs |-> {kw_amount, kw_cost, kw_value, kw_estimate},
   policies |-> {kw_policy},
   types |-> {kw_type, kw_cause}]

\* the texts of the calls whose lowercased type name contains a word of the
\* family, in the order of the calls, each once
RECURSIVE textsOfFamily(_, _, _, _)
textsOfFamily(calls, k, words, out) ==
  IF k > Len(calls) THEN out
  ELSE textsOfFamily(calls, k + 1, words,
         IF \E w \in words : includes(toLowerCase(calls[k].type), w)
         THEN Append(out, calls[k].value) ELSE out)

\* C22: the router appends the text of a span to the parties bucket iff its
\* lowercased type name contains claimant, name, hospital, garage or
\* airline, to dates iff it contains date, to locations iff location or
\* destination, to costs iff amount, cost, value or estimate, to policies
\* iff policy, to type hints iff type or cause; a name that matches several
\* families goes to each of them, once per bucket
C22_RouterFamilies ==
  \A b \in DOMAIN RouterFamilies :
    extractedEntities[b] = textsOfFamily(emitted, 1, RouterFamilies[b], <<>>)

\* a span of type Policy Name went to parties and to policies, and a span
\* of type Estimated Loss Value, which holds two cost words, to costs once
C22_Witness ==
  /\ Len(emitted) = 2
  /\ emitted[1].type = <<"P","o","l","i","c","y"," ","N","a","m","e">>
  /\ emitted[2].type = <<"E","s","t","i","m","a","t","e","d"," ","L","o","s","s"," ","V","a","l","u","e">>
  /\ extractedEntities.parties = <<emitted[1].value>>
  /\ extractedEntities.policies = <<emitted[1].value>>
  /\ extractedEntities.costs = <<emitted[2].value>>

\* C24: within one extractClaimDetailsLocal call the model is invoked at
\* most twice, the second time only after the first invocation failed, and
\* when the last invocation failed the call does not reject: it goes on to
\* the second invocation or to the catch block and returns the Model Error
\* record
C24_BoundedRetry ==
  /\ Len(invoked) <= 2
  /\ Len(invoked) = 2 => invoked[1] = "failed"
  /\ (invoked # <<>> /\ invoked[Len(invoked)] = "failed") =>
       /\ pc \in {"retry", "caught", "resolved"}
       /\ pc = "retry" => Len(invoked) = 1
       /\ pc = "resolved" =>
            /\ result # Null
            /\ result[1].incident_type = ModelError
            /\ result[1].key_topics = <<ExecutionFailed>>

\* both invocations failed and the call has returned the Model Error record
C24_Witness ==
  /\ invoked = <<"failed", "failed">>
  /\ pc = "resolved"
  /\ result # Null
  /\ result[1].incident_type = ModelError

\* the index is one the active lookup does not contain
unknownIndex(tagMap, idx) ==
  IF tagMap # Null THEN idx \notin DOMAIN tagMap[1]
  ELSE idx < 0 \/ idx >= Len(NER_TAGS)

\* C25: a position whose tag index the active lookup does not contain is
\* treated as O: the step closes the span that is open (it is handed to the
\* router with the text it had and no span is open afterwards), opens none,
\* adds no key topic and no score, and the loop goes on to the next position
C25_UnknownIndexIsO ==
  [][(/\ pc = "decode"
      /\ Len(indices') = Len(indices) + 1
      /\ unknownIndex(idx2tag, indices'[Len(indices')]))
     => (/\ tags' = Append(tags, TagO)
         /\ emitted' = closeSpan(emitted, refOpen(SubSeq(inputWords, 1, i), tags))
         /\ currentEntity' = <<>>
         /\ currentTagType' = <<>>
         /\ foundTopicsSet' = foundTopicsSet
         /\ scores' = scores
         /\ i' = i + 1
         /\ pc' = "decode")]_vars

\* the loadCustomModelFromFiles call under way throws at this step
LoadThrows == loadPc # "none" /\ loadPc' = "none" /\ ~customModelLoaded'

\* C27: when loadCustomModelFromFiles fails (no topology file, no weight
\* file, or both loaders reject), the stored model, the word index and the
\* tag map have the values they had before the call
C27_FailedLoadKeepsState ==
  [][LoadThrows =>
       /\ customModel' = loadBefore[1].model
       /\ wordIndex' = loadBefore[1].wordIndex
       /\ idx2tag' = loadBefore[1].idx2tag
    ]_vars

\* a Process request starts its extraction call at this step
ExtractionStarts == pc = "idle" /\ pc' # "idle"

\* C28: in local mode a Process request runs the custom-model path only
\* when the model source of the form is custom and customModelLoaded is
\* true; with the default source, or with the flag cleared by a failed
\* load, the request is served by the embedding fallback
C28_CustomPathOnlyWhenChosen ==
  [][ExtractionStarts =>
       /\ pc' = "prepare" => (modelSource = "custom" /\ customModelLoaded)
       /\ (modelSource = "default" \/ ~customModelLoaded) => pc' = "fallback"
    ]_vars

\* C26: under every interleaving of Process, demo scenario and Load Custom
\* Model clicks with the calls under way, whenever the status is COMPLETED
\* the extraction result and the verification result are both set, and
\* both by the same Process run (one run is followed at a time and begins
\* by clearing both, so two results that are set are of the same run)
C26_CompletedHasBothResults ==
  status = "COMPLETED" => (extractionResult # Null /\ verificationResult # Null)

\* the request is one the claim names: blank text and no attachment, or an
\* empty knowledge base
blankRequest(input, documents) ==
  \/ (\A k \in 1..Len(input.text) : input.text[k] = " ") /\ ~input.file
  \/ documents = 0

\* C30: a Process request with blank text and no attachment, or with an
\* empty knowledge base, issues no extraction and no verification call and
\* leaves the status and both results as they were; it sets the error
\* message and nothing else
C30_RefusedRequestFrame ==
  [][\A input \in FormInputs, documents \in DocumentCounts :
       (blankRequest(input, documents) /\ processRequest(input, documents)) =>
         /\ errorMsg' # Null
         /\ UNCHANGED <<pc, vpc, status, extractionResult, verificationResult>>
         /\ UNCHANGED <<moduleVars, chatVars, extractVars, serviceVars, localModelReady,
                        customModelLoaded, loadPc, modelSource>>
    ]_vars

\* a request was refused for its empty knowledge base after a run had
\* completed: both results and the status of that run are still there
C30_Witness ==
  /\ errorMsg = Some(NoDocuments)
  /\ status = "COMPLETED"
  /\ extractionResult # Null
  /\ verificationResult # Null
  /\ pc = "idle"
  /\ vpc = "idle"

\* C23: within one handleProcess run the verification call is issued only
\* at the step that takes the resolved extraction, with the record the
\* extraction returned, which is also the record stored; the run writes
\* EXTRACTING when it calls the extraction, VERIFYING when it calls the
\* verification and COMPLETED only when the verification has resolved; a
\* rejected extraction issues no verification call and sets ERROR
C23_ExtractionThenVerification ==
  [][/\ (pc = "idle" /\ pc' # "idle") => status' = "EXTRACTING"
     /\ (vpc = "idle" /\ vpc' # "idle") =>
          /\ pc = "resolved"
          /\ result # Null
          /\ verifying' = result
          /\ extractionResult' = result
          /\ status' = "VERIFYING"
     /\ (status' = "VERIFYING" /\ status # "VERIFYING") => (pc = "resolved" /\ vpc' # "idle")
     /\ (status' = "COMPLETED" /\ status # "COMPLETED") =>
          (vpc = "resolved" /\ verifying # Null /\ verificationResult' = verification)
     /\ (pc = "rejected" /\ pc' = "idle") =>
          (vpc = "idle" /\ vpc' = "idle" /\ verifying' = Null /\ status' = "ERROR")
    ]_vars

\* the verification call of a run is under way with the record that the
\* extraction returned and the form stored
C23_Witness ==
  /\ status = "VERIFYING"
  /\ vpc = "awaiting"
  /\ verifying # Null
  /\ verifying = extractionResult

\* ------------------------------------------------------------------------
\* The knowledge base of the page and the chat widget (App, ChatBot.tsx).
\* A document is modelled by its id; a chat session by the document list it
\* was created from. The chat is modelled with an API key present, so that
\* createChatSession returns a session. The list of displayed messages is
\* left out: no handler reads it.

\* the files the user uploads in a run of the page
MaxUploads == 2

\* the id processFile gives the n-th file it reads: Date.now() + Math.random(),
\* different for every file
newDocId(n) == <<"file-1", "file-2", "file-3", "file-4">>[n]

\* prev.filter(d => d.id !== id)
RECURSIVE withoutId(_, _)
withoutId(docs, id) ==
  IF docs = <<>> THEN <<>>
  ELSE IF Head(docs) = id THEN withoutId(Tail(docs), id)
  ELSE <<Head(docs)>> \o withoutId(Tail(docs), id)

\* geminiService.ts createChatSession: the session's first turn holds the
\* parts of every document of the list it is given
createChatSession(docs) == Some(docs)

\* ChatBot's first effect, run after a render in which the list went from
\* before to after; its dependency is documents.length
reinitialize(before, after) ==
  IF Len(before) = Len(after) THEN chatSessionRef
  ELSE IF isOpen THEN createChatSession(after) ELSE Null

\* App's setDocuments followed by the render and ChatBot's effects
setDocuments(after) ==
  /\ knowledgeBase' = after
  /\ chatSessionRef' = reinitialize(knowledgeBase, after)

\* App.processFile and the reader's onload: a file that is no PDF or is too
\* large is skipped, any other is appended with a fresh id
ProcessFile ==
  /\ uploads < MaxUploads
  /\ \E accepted \in BOOLEAN :
       IF accepted
       THEN /\ uploads' = uploads + 1
            /\ setDocuments(Append(knowledgeBase, newDocId(uploads + 1)))
       ELSE UNCHANGED <<knowledgeBase, uploads, chatSessionRef>>
  /\ UNCHANGED <<isOpen, isLoading, sentTo>>
  /\ UNCHANGED <<moduleVars, extractVars, outerVars>>

\* App.removeDocument, from the button of a listed document
RemoveDocument ==
  /\ \E k \in 1..Len(knowledgeBase) :
       setDocuments(withoutId(knowledgeBase, knowledgeBase[k]))
  /\ UNCHANGED <<uploads, isOpen, isLoading, sentTo>>
  /\ UNCHANGED <<moduleVars, extractVars, outerVars>>

\* App.resetKnowledgeBase: after the user confirms, the sample list again
ResetKnowledgeBase ==
  /\ \E confirmed \in BOOLEAN :
       IF confirmed
       THEN setDocuments(SAMPLE_DOCUMENTS)
       ELSE UNCHANGED <<knowledgeBase, chatSessionRef>>
  /\ UNCHANGED <<uploads, isOpen, isLoading, sentTo>>
  /\ UNCHANGED <<moduleVars, extractVars, outerVars>>

\* the trigger button: setIsOpen(true), then the second effect creates a
\* session from the current list if the ref holds none
OpenChat ==
  /\ ~isOpen
  /\ isOpen' = TRUE
  /\ chatSessionRef' = IF chatSessionRef = Null
                         THEN createChatSession(knowledgeBase)
                         ELSE chatSessionRef
  /\ UNCHANGED <<knowledgeBase, uploads, isLoading, sentTo>>
  /\ UNCHANGED <<moduleVars, extractVars, outerVars>>

\* the close button: setIsOpen(false); the second effect does nothing
CloseChat ==
  /\ isOpen
  /\ isOpen' = FALSE
  /\ UNCHANGED <<knowledgeBase, uploads, chatSessionRef, isLoading, sentTo>>
  /\ UNCHANGED <<moduleVars, extractVars, outerVars>>

\* ChatBot.handleSend up to its await: a blank text or a missing session
\* returns, otherwise the text goes to the session the ref holds
HandleSend ==
  /\ isOpen
  /\ ~isLoading
  /\ \E inputText \in {<<" ">>, <<"q">>} :
       IF trim(inputText) = <<>> \/ chatSessionRef = Null
       THEN UNCHANGED <<isLoading, sentTo>>
       ELSE /\ isLoading' = TRUE
            /\ sentTo' = Some([session |-> chatSessionRef[1], current |-> knowledgeBase])
  /\ UNCHANGED <<knowledgeBase, uploads, isOpen, chatSessionRef>>
  /\ UNCHANGED <<moduleVars, extractVars, outerVars>>

\* handleSend after its await: the reply or the error message is shown, and
\* finally setIsLoading(false)
SendSettles ==
  /\ isLoading
  /\ isLoading' = FALSE
  /\ UNCHANGED <<knowledgeBase, uploads, isOpen, chatSessionRef, sentTo>>
  /\ UNCHANGED <<moduleVars, extractVars, outerVars>>

NextChat ==
  \/ ProcessFile
  \/ RemoveDocument
  \/ ResetKnowledgeBase
  \/ OpenChat
  \/ CloseChat
  \/ HandleSend
  \/ SendSettles

SpecChat == Init /\ [][NextChat]_vars

\* C29: whenever the chat widget sends a message, the session it goes to was
\* created from the document list that is current at that moment.
C29_SessionFromCurrentDocuments ==
  sentTo # Null => sentTo[1].session = sentTo[1].current

====
